---- MODULE Spec2Model ----
(***************************************************************************)
(* Model of the Pyth accumulator codec of the Pyth Oracle Data Processor:  *)
(* PythDataDecoder (utils/decoder.ts), PythDataEncoder (utils/encoder.ts). *)
(*                                                                         *)
(* Conventions.                                                            *)
(*  - A Buffer is a sequence of bytes 0..255; JS offset o is index o+1.     *)
(*  - A JS string is a sequence of one-character strings.                  *)
(*  - A JS bigint or integral number is [t, neg, mag]: t is the typeof     *)
(*    ("bigint" / "number"), mag the big-endian base-256 digits of the     *)
(*    magnitude without leading zeros (zero is <<>>).  The 64-bit fields   *)
(*    do not fit a machine integer of the checker, so every fixed-width    *)
(*    read and write is done on the digits, as two's complement.           *)
(*  - A call that can throw returns [ok, val, error]; a try/catch turns    *)
(*    ok = FALSE into the tagged result of the method.                     *)
(***************************************************************************)
EXTENDS Integers, Sequences, FiniteSets, TLC

VARIABLES
    pc,               \* position of the driver: which call comes next
    allUpdates,       \* reencodeSelectedFeeds / validateReencodedData: records argument
    selectedIndices,  \* reencodeSelectedFeeds / validateReencodedData: indices argument
    encodeResult,     \* <<>> or <<ProcessingResult of reencodeSelectedFeeds>>
    hermesResponse,   \* decodePriceUpdates: argument
    decodeResult,     \* <<>> or <<ProcessingResult of decodePriceUpdates>>
    validation,       \* <<>> or <<outcome of validateReencodedData>>
    encodedUpdate,    \* createUpdatePriceFeedsCalldata: argument (hex string)
    calldata,         \* <<>> or <<calldata with prefix, calldata without prefix>>
    numFeeds,         \* estimateGasCost: argument
    gas,              \* the gas estimates taken so far, oldest first
    now,              \* Date.now()
    calls,            \* the codec calls made so far, oldest first, with what they returned
    fetch,            \* <<>> or <<fetchLatestPriceUpdates in progress or settled>>
    request,          \* <<>> or <<makeRequest in progress or settled>>
    report            \* <<>> or <<validationReport written by validateUpdate>>

vars == <<pc, allUpdates, selectedIndices, encodeResult, hermesResponse,
          decodeResult, validation, encodedUpdate, calldata, numFeeds, gas, now, calls, fetch, request, report>>

----------------------------------------------------------------------------
(* Thrown / returned values *)

Err(msg, args) == [msg |-> msg, args |-> args]
NoError == Err("", <<>>)
Ok(v) == [ok |-> TRUE, val |-> v, error |-> NoError]
Throw(e) == [ok |-> FALSE, val |-> <<>>, error |-> e]

\* Node's own errors, by code (their message text is not part of this repository).
ERR_OUT_OF_RANGE == Err("ERR_OUT_OF_RANGE", <<>>)
ERR_INVALID_ARG_TYPE == Err("ERR_INVALID_ARG_TYPE", <<>>)
TypeErrorUndefined == Err("TypeError: Cannot read properties of null or undefined", <<>>)

\* The first failed step of a sequence of steps, or the last step when none failed.
RECURSIVE FirstFailure(_)
FirstFailure(steps) ==
    IF Len(steps) = 1 \/ ~steps[1].ok THEN steps[1] ELSE FirstFailure(Tail(steps))

----------------------------------------------------------------------------
(* JS values *)

Null == [t |-> "null"]
Arr(items) == [t |-> "array", items |-> items]
IsArr(v) == v.t = "array"

Big(neg, mag) == [t |-> "bigint", neg |-> neg, mag |-> mag]
Num(neg, mag) == [t |-> "number", neg |-> neg, mag |-> mag]

Zeros(n) == [i \in 1..n |-> 0]

RECURSIVE StripZeros(_)
StripZeros(b) == IF b # <<>> /\ b[1] = 0 THEN StripZeros(Tail(b)) ELSE b

PadLeft(mag, w) == Zeros(w - Len(mag)) \o mag

RECURSIVE Incr(_)
\* b + 1 modulo 256^Len(b)
Incr(b) ==
    IF b = <<>> THEN <<>>
    ELSE IF b[Len(b)] < 255 THEN [b EXCEPT ![Len(b)] = @ + 1]
    ELSE Incr(SubSeq(b, 1, Len(b) - 1)) \o <<0>>

Complement(b) == [i \in 1..Len(b) |-> 255 - b[i]]
TwosComplement(b) == Incr(Complement(b))

\* -2^(8w-1) <= v < 2^(8w-1)
InSignedRange(v, w) ==
    \/ Len(v.mag) < w
    \/ /\ Len(v.mag) = w
       /\ \/ v.mag[1] < 128
          \/ v.neg /\ v.mag = <<128>> \o Zeros(w - 1)

\* 0 <= v < 2^(8w)
InUnsignedRange(v, w) == (~v.neg \/ v.mag = <<>>) /\ Len(v.mag) <= w

SignedBytes(v, w) ==
    IF v.neg THEN TwosComplement(PadLeft(v.mag, w)) ELSE PadLeft(v.mag, w)

FromSigned(b, t) ==
    IF b[1] >= 128 THEN [t |-> t, neg |-> TRUE, mag |-> StripZeros(TwosComplement(b))]
    ELSE [t |-> t, neg |-> FALSE, mag |-> StripZeros(b)]

FromUnsigned(b, t) == [t |-> t, neg |-> FALSE, mag |-> StripZeros(b)]

----------------------------------------------------------------------------
(* Number(bigint) and BigInt(number) *)

BitsOfByte(x) == [i \in 1..8 |-> (x \div (2 ^ (8 - i))) % 2]

RECURSIVE ToBits(_)
ToBits(b) == IF b = <<>> THEN <<>> ELSE BitsOfByte(b[1]) \o ToBits(Tail(b))

ByteOfBits(s) ==
    128 * s[1] + 64 * s[2] + 32 * s[3] + 16 * s[4] + 8 * s[5] + 4 * s[6] + 2 * s[7] + s[8]

RECURSIVE FromBits(_)
\* Len(s) is a multiple of 8
FromBits(s) ==
    IF s = <<>> THEN <<>> ELSE <<ByteOfBits(SubSeq(s, 1, 8))>> \o FromBits(SubSeq(s, 9, Len(s)))

RECURSIVE StripZeroBits(_)
StripZeroBits(s) == IF s # <<>> /\ s[1] = 0 THEN StripZeroBits(Tail(s)) ELSE s

RECURSIVE IncrBits(_)
\* s + 1, one bit longer when every bit of s is set
IncrBits(s) ==
    IF s = <<>> THEN <<1>>
    ELSE IF s[Len(s)] = 0 THEN [s EXCEPT ![Len(s)] = 1]
    ELSE IncrBits(SubSeq(s, 1, Len(s) - 1)) \o <<0>>

MantissaBits == 53

\* The magnitude of the double nearest to the integer of magnitude mag
\* (round to nearest, ties to even), as Number(bigint) computes it.
RoundToDouble(mag) ==
    LET s == StripZeroBits(ToBits(mag)) IN
    IF Len(s) <= MantissaBits THEN mag
    ELSE
      LET kept == SubSeq(s, 1, MantissaBits)
          rest == SubSeq(s, MantissaBits + 1, Len(s))
          half == <<1>> \o [i \in 1..(Len(rest) - 1) |-> 0]
          above == rest[1] = 1 /\ rest # half
          tie == rest = half
          up == above \/ (tie /\ kept[MantissaBits] = 1)
          m == IF up THEN IncrBits(kept) ELSE kept
          full == m \o [i \in 1..Len(rest) |-> 0]
          pad == (8 - (Len(full) % 8)) % 8
      IN StripZeros(FromBits([i \in 1..pad |-> 0] \o full))

\* Number(v) for a bigint v
NumberOf(v) == Num(v.neg, RoundToDouble(v.mag))

\* BigInt(v): an integral number converts exactly; a bigint is returned as it is
BigIntOf(v) == Big(v.neg, v.mag)

----------------------------------------------------------------------------
(* Buffer *)

CanRead(buffer, offset, n) == offset >= 0 /\ offset + n <= Len(buffer)

Bytes(buffer, offset, n) == SubSeq(buffer, offset + 1, offset + n)

\* buffer.subarray(start, end): clamped to the buffer, never throws
Subarray(buffer, start, end) ==
    LET e == IF end > Len(buffer) THEN Len(buffer) ELSE end IN
    IF start >= e THEN <<>> ELSE SubSeq(buffer, start + 1, e)

readUInt8(buffer, offset) ==
    IF CanRead(buffer, offset, 1) THEN Ok(buffer[offset + 1]) ELSE Throw(ERR_OUT_OF_RANGE)

readUInt16BE(buffer, offset) ==
    IF CanRead(buffer, offset, 2)
    THEN Ok(buffer[offset + 1] * 256 + buffer[offset + 2])
    ELSE Throw(ERR_OUT_OF_RANGE)

\* The 32-bit value as its four big-endian digits
readUInt32BE(buffer, offset) ==
    IF CanRead(buffer, offset, 4) THEN Ok(Bytes(buffer, offset, 4)) ELSE Throw(ERR_OUT_OF_RANGE)

readInt32BE(buffer, offset) ==
    IF CanRead(buffer, offset, 4)
    THEN Ok(FromSigned(Bytes(buffer, offset, 4), "number"))
    ELSE Throw(ERR_OUT_OF_RANGE)

\* Faulty variant: the signed field read as unsigned
readBigInt64BE_Unsigned(buffer, offset) ==
    IF CanRead(buffer, offset, 8)
    THEN Ok(FromUnsigned(Bytes(buffer, offset, 8), "bigint"))
    ELSE Throw(ERR_OUT_OF_RANGE)

readBigInt64BE(buffer, offset) ==
    IF CanRead(buffer, offset, 8)
    THEN Ok(FromSigned(Bytes(buffer, offset, 8), "bigint"))
    ELSE Throw(ERR_OUT_OF_RANGE)

readBigUInt64BE(buffer, offset) ==
    IF CanRead(buffer, offset, 8)
    THEN Ok(FromUnsigned(Bytes(buffer, offset, 8), "bigint"))
    ELSE Throw(ERR_OUT_OF_RANGE)

writeUInt8(value) ==
    IF value < 0 \/ value > 255 THEN Throw(ERR_OUT_OF_RANGE) ELSE Ok(<<value>>)

writeUInt16BE(value) ==
    IF value < 0 \/ value > 65535 THEN Throw(ERR_OUT_OF_RANGE)
    ELSE Ok(<<value \div 256, value % 256>>)

writeInt32BE(v) ==
    IF v.t # "number" THEN Throw(ERR_INVALID_ARG_TYPE)
    ELSE IF ~InSignedRange(v, 4) THEN Throw(ERR_OUT_OF_RANGE)
    ELSE Ok(SignedBytes(v, 4))

writeBigInt64BE(v) ==
    IF v.t # "bigint" THEN Throw(ERR_INVALID_ARG_TYPE)
    ELSE IF ~InSignedRange(v, 8) THEN Throw(ERR_OUT_OF_RANGE)
    ELSE Ok(SignedBytes(v, 8))

writeBigUInt64BE(v) ==
    IF v.t # "bigint" THEN Throw(ERR_INVALID_ARG_TYPE)
    ELSE IF ~InUnsignedRange(v, 8) THEN Throw(ERR_OUT_OF_RANGE)
    ELSE Ok(PadLeft(v.mag, 8))

----------------------------------------------------------------------------
(* Hex strings *)

HexChars == <<"0", "1", "2", "3", "4", "5", "6", "7", "8", "9", "a", "b", "c", "d", "e", "f">>

\* The value of a hex digit, -1 for any other character
HexValue(c) ==
    CASE c = "0" -> 0 [] c = "1" -> 1 [] c = "2" -> 2 [] c = "3" -> 3
      [] c = "4" -> 4 [] c = "5" -> 5 [] c = "6" -> 6 [] c = "7" -> 7
      [] c = "8" -> 8 [] c = "9" -> 9
      [] c \in {"a", "A"} -> 10 [] c \in {"b", "B"} -> 11 [] c \in {"c", "C"} -> 12
      [] c \in {"d", "D"} -> 13 [] c \in {"e", "E"} -> 14 [] c \in {"f", "F"} -> 15
      [] OTHER -> -1

IsHexPair(str, k) == HexValue(str[2 * k - 1]) >= 0 /\ HexValue(str[2 * k]) >= 0

\* Buffer.from(str, 'hex'): whole pairs of hex digits up to the first pair that is not one
BufferFromHex(str) ==
    LET pairs == Len(str) \div 2
        bad == {k \in 1..pairs : ~IsHexPair(str, k)}
        n == IF bad = {} THEN pairs ELSE (CHOOSE k \in bad : \A j \in bad : k <= j) - 1
    IN [k \in 1..n |-> 16 * HexValue(str[2 * k - 1]) + HexValue(str[2 * k])]

\* buffer.toString('hex'): two lower-case digits a byte
BufferToHex(buffer) ==
    [i \in 1..(2 * Len(buffer)) |->
        LET byte == buffer[(i + 1) \div 2] IN
        IF i % 2 = 1 THEN HexChars[(byte \div 16) + 1] ELSE HexChars[(byte % 16) + 1]]

\* Faulty variant: the prefix is never recognised
StartsWith0x_Never(str) == FALSE

StartsWith0x(str) == Len(str) >= 2 /\ str[1] = "0" /\ str[2] = "x"

\* str.slice(2)
Slice2(str) == SubSeq(str, 3, Len(str))

----------------------------------------------------------------------------
(* PythDataEncoder: serialisation (utils/encoder.ts) *)

MAGIC == <<80, 78, 65, 85>>   \* 0x504e4155, "PNAU"
FeedIdBytes == 32

InvalidFeedIdLength(n) == Err("Invalid feed ID length", <<n>>)

\* Lines 161-168: the size field is written over the length of all that follows it
PrependSize(messageData) ==
    LET messageSize == writeUInt16BE(Len(messageData)) IN
    IF messageSize.ok THEN Ok(messageSize.val \o messageData) ELSE messageSize

\* Buffer.concat of the parts, unless writing one of them threw
ConcatParts(parts, failed) ==
    IF ~failed.ok THEN failed
    ELSE PrependSize(parts[1].val \o parts[2].val \o parts[3].val \o parts[4].val
                     \o parts[5].val \o parts[6].val \o parts[7].val \o parts[8].val
                     \o parts[9].val)

FeedIdBuffer(feedIdBuffer) ==
    IF Len(feedIdBuffer) # FeedIdBytes
    THEN Throw(InvalidFeedIdLength(Len(feedIdBuffer))) ELSE Ok(feedIdBuffer)

\* Faulty variant: the previous publish time is not the publish time written again
MessageParts_OtherPrevious(update) ==
    << writeUInt8(0),
       FeedIdBuffer(BufferFromHex(IF StartsWith0x(update.feedId)
                                  THEN Slice2(update.feedId) ELSE update.feedId)),
       writeBigInt64BE(update.priceValue),
       writeBigUInt64BE(update.confidence),
       writeInt32BE(update.exponent),
       writeBigUInt64BE(BigIntOf(update.publishTime)),
       writeBigUInt64BE(update.confidence),
       writeBigInt64BE(update.emaPrice),
       writeBigUInt64BE(update.emaConfidence) >>

\* The parts of one message in the order they are written: type, feed id, price,
\* confidence, exponent, publish time, previous publish time, EMA price, EMA confidence
MessageParts(update) ==
    << writeUInt8(0),
       FeedIdBuffer(BufferFromHex(IF StartsWith0x(update.feedId)
                                  THEN Slice2(update.feedId) ELSE update.feedId)),
       writeBigInt64BE(update.priceValue),
       writeBigUInt64BE(update.confidence),
       writeInt32BE(update.exponent),
       writeBigUInt64BE(BigIntOf(update.publishTime)),
       writeBigUInt64BE(BigIntOf(update.publishTime)),
       writeBigInt64BE(update.emaPrice),
       writeBigUInt64BE(update.emaConfidence) >>

SizedMessage(parts) == ConcatParts(parts, FirstFailure(parts))

\* One message: 2-byte size, then type, feed id and the numeric fields.
encodeSinglePriceUpdate(update) == SizedMessage(MessageParts(update))

\* a \o b of two results, the first failure when there is one
ConcatResults(a, b) ==
    IF ~a.ok THEN a ELSE IF ~b.ok THEN b ELSE Ok(a.val \o b.val)

RECURSIVE EncodeEach(_)
\* selectedUpdates.forEach(update => buffers.push(encodeSinglePriceUpdate(update)))
EncodeEach(updates) ==
    IF updates = <<>> THEN Ok(<<>>)
    ELSE ConcatResults(encodeSinglePriceUpdate(updates[1]), EncodeEach(Tail(updates)))

\* magic, version (major 1, minor 0), trailing header size 0, update type 0
\* Faulty variant: no trailing header size, so that the count lands at offsets 9-10
HeaderPrefix_NoTrailing == MAGIC \o <<0, 1, 0, 0>> \o <<0>>

HeaderPrefix == MAGIC \o <<0, 1, 0, 0>> \o <<0, 0>> \o <<0>>

createRealAccumulatorUpdate(selectedUpdates) ==
    ConcatResults(Ok(HeaderPrefix),
                  ConcatResults(writeUInt16BE(Len(selectedUpdates)), EncodeEach(selectedUpdates)))

\* Faulty variant: the index taken as one-based
ElementAt_OneBased(items, index) ==
    IF index >= 1 /\ index <= Len(items) THEN <<items[index]>> ELSE <<>>

\* allUpdates[index] of a JS array: the element, or undefined (here <<>>)
ElementAt(items, index) ==
    IF index >= 0 /\ index < Len(items) THEN <<items[index + 1]>> ELSE <<>>

RECURSIVE Resolve_Reversed(_, _)
\* Faulty variant: the selection comes out in reverse order
Resolve_Reversed(items, indices) ==
    IF indices = <<>> THEN <<>>
    ELSE Resolve_Reversed(items, Tail(indices)) \o ElementAt(items, indices[1])

RECURSIVE Resolve(_, _)
\* selectedIndices.map(index => allUpdates[index]).filter(update => update !== undefined)
Resolve(items, indices) ==
    IF indices = <<>> THEN <<>>
    ELSE ElementAt(items, indices[1]) \o Resolve(items, Tail(indices))

CouldNotFindAll(found, requested) ==
    Err("Could not find all requested updates", <<found, requested>>)

Failure(error) == [success |-> FALSE, data |-> <<>>, error |-> error]
Success(data) == [success |-> TRUE, data |-> <<data>>, error |-> NoError]

\* Lines 31-49: the success result built from the encoded buffer
EncodedResult(updates, selectedUpdates, realAccumulatorUpdate) ==
    IF ~realAccumulatorUpdate.ok THEN Failure(realAccumulatorUpdate.error)
    ELSE Success([
           selectedUpdates |-> selectedUpdates,
           encodedData |-> BufferToHex(realAccumulatorUpdate.val),
           binaryData |-> realAccumulatorUpdate.val,
           originalCount |-> Len(updates),
           selectedCount |-> Len(selectedUpdates),
           feedIds |-> [k \in 1..Len(selectedUpdates) |-> selectedUpdates[k].feedId]])

\* Faulty variant: unresolved indices are dropped silently
EncodeSelected_Unchecked(updates, indices, selectedUpdates) ==
    EncodedResult(updates, selectedUpdates, createRealAccumulatorUpdate(selectedUpdates))

\* Lines 24-29: every index must have resolved before anything is encoded
EncodeSelected(updates, indices, selectedUpdates) ==
    IF Len(selectedUpdates) # Len(indices)
    THEN Failure(CouldNotFindAll(Len(selectedUpdates), Len(indices)))
    ELSE EncodedResult(updates, selectedUpdates, createRealAccumulatorUpdate(selectedUpdates))

reencodeSelectedFeeds(updates, indices) ==
    IF ~IsArr(updates) \/ ~IsArr(indices) THEN Failure(TypeErrorUndefined)
    ELSE EncodeSelected(updates.items, indices.items, Resolve(updates.items, indices.items))

----------------------------------------------------------------------------
(* PythDataDecoder (utils/decoder.ts) *)

BadMagic == Err("Invalid Pyth update magic number", <<>>)

parseSinglePriceUpdate(buffer, offset) ==
    LET messageSize == readUInt16BE(buffer, offset)
        messageType == readUInt8(buffer, offset + 2)
        feedId == BufferToHex(Subarray(buffer, offset + 3, offset + 35))
        priceValue == readBigInt64BE(buffer, offset + 35)
        confidence == readBigUInt64BE(buffer, offset + 43)
        exponent == readInt32BE(buffer, offset + 51)
        publishTime == readBigUInt64BE(buffer, offset + 55)
        prevPublishTime == readBigUInt64BE(buffer, offset + 63)
        emaPrice == readBigInt64BE(buffer, offset + 71)
        emaConfidence == readBigUInt64BE(buffer, offset + 79)
        failed == FirstFailure(<<messageSize, messageType, priceValue, confidence, exponent,
                                 publishTime, prevPublishTime, emaPrice, emaConfidence>>)
    IN IF ~failed.ok THEN failed
       ELSE Ok([data |-> [feedId |-> <<"0", "x">> \o feedId,
                          priceValue |-> priceValue.val,
                          confidence |-> confidence.val,
                          exponent |-> exponent.val,
                          publishTime |-> NumberOf(publishTime.val),
                          emaPrice |-> emaPrice.val,
                          emaConfidence |-> emaConfidence.val,
                          slot |-> 0],
                nextOffset |-> offset + 87])

RECURSIVE ParseUpdates(_, _, _, _)
\* for (let i = 0; i < numUpdates; i++) { parse one; updates.push; offset = nextOffset }
ParseUpdates(buffer, offset, remaining, updates) ==
    IF remaining = 0 THEN Ok(updates)
    ELSE LET update == parseSinglePriceUpdate(buffer, offset) IN
         IF ~update.ok THEN update
         ELSE ParseUpdates(buffer, update.val.nextOffset, remaining - 1,
                           Append(updates, update.val.data))

\* Lines 66-89: versions, trailing header size, update type, then the count and the messages
ParseAfterMagic(buffer) ==
    LET majorVersion == readUInt16BE(buffer, 4)
        minorVersion == readUInt16BE(buffer, 6)
        trailingHeaderSize == readUInt16BE(buffer, 8)
        updateType == readUInt8(buffer, 10)
        failed == FirstFailure(<<majorVersion, minorVersion, trailingHeaderSize, updateType>>)
    IN IF ~failed.ok THEN failed
       ELSE
         LET offset == 11 + trailingHeaderSize.val
             numUpdates == readUInt16BE(buffer, offset)
         IN IF ~numUpdates.ok THEN numUpdates
            ELSE ParseUpdates(buffer, offset + 2, numUpdates.val, <<>>)

\* Faulty variant: the magic number is read but not compared
CheckMagic_Unchecked(buffer, magic) ==
    IF ~magic.ok THEN magic ELSE ParseAfterMagic(buffer)

\* Lines 59-64: magic is the result of readUInt32BE(0)
CheckMagic(buffer, magic) ==
    IF ~magic.ok THEN magic
    ELSE IF magic.val # MAGIC THEN Throw(BadMagic)
    ELSE ParseAfterMagic(buffer)

parsePythAccumulatorUpdate(buffer) == CheckMagic(buffer, readUInt32BE(buffer, 0))

\* parsedData.find(p => p.id === decoded.feedId), then  parsed.metadata?.slot || 0
enrichOne(decoded, parsedData) ==
    LET hits == {k \in 1..Len(parsedData) : parsedData[k].id = decoded.feedId} IN
    IF hits = {} THEN decoded
    ELSE LET parsed == parsedData[CHOOSE k \in hits : \A j \in hits : k <= j] IN
         [decoded EXCEPT !.slot = IF parsed.metadata = <<>> THEN 0 ELSE parsed.metadata[1].slot]

\* hermesResponse.parsed is <<>> when the property is missing, <<array>> otherwise
enrichWithParsedData(decodedUpdates, parsedData) ==
    IF decodedUpdates = <<>> THEN Ok(<<>>)
    ELSE IF parsedData = <<>> THEN Throw(TypeErrorUndefined)
    ELSE Ok([k \in 1..Len(decodedUpdates) |-> enrichOne(decodedUpdates[k], parsedData[1])])

\* response: [isNull, binary: <<>> or <<[data: array of hex strings]>>, parsed: <<>> or <<array>>]
decodePriceUpdates(response) ==
    IF response.isNull \/ response.binary = <<>> THEN Failure(TypeErrorUndefined)
    ELSE IF response.binary[1].data = <<>> THEN Failure(TypeErrorUndefined)
    ELSE
      LET binaryData == response.binary[1].data[1]
          buffer == BufferFromHex(binaryData)
          decodedUpdates == parsePythAccumulatorUpdate(buffer)
      IN IF ~decodedUpdates.ok THEN Failure(decodedUpdates.error)
         ELSE
           LET enrichedUpdates == enrichWithParsedData(decodedUpdates.val, response.parsed) IN
           IF ~enrichedUpdates.ok THEN Failure(enrichedUpdates.error)
           ELSE Success([originalBinary |-> binaryData,
                         decodedUpdates |-> enrichedUpdates.val,
                         feedCount |-> Len(enrichedUpdates.val),
                         buffer |-> buffer])

----------------------------------------------------------------------------
(* PythDataDecoder.encodePriceUpdate (utils/decoder.ts) *)

\* Faulty variant: one byte more is allocated than is written afterwards
AllocUnsafe_Longer(n, memory) == [i \in 1..(n + 1) |-> memory]

\* Buffer.allocUnsafe(n): n bytes of whatever the memory held (here the byte memory)
AllocUnsafe(n, memory) == [i \in 1..n |-> memory]

\* buf = Buffer.allocUnsafe(n); buf.write...(value): the bytes written, from offset 0,
\* over what the buffer held
WriteUnsafe(n, memory, written) ==
    IF ~written.ok THEN written
    ELSE Ok(written.val \o SubSeq(AllocUnsafe(n, memory), Len(written.val) + 1,
                                  Len(AllocUnsafe(n, memory))))

\* Lines 218-224: sizeBuffer written over the length of messageData, then both concatenated
UnsafeSized(messageData, memory) ==
    ConcatResults(WriteUnsafe(2, memory, writeUInt16BE(Len(messageData))), Ok(messageData))

\* The message of one record; timeBuffer is pushed twice; nothing is caught
encodePriceUpdate(update, memory) ==
    LET timeBuffer == WriteUnsafe(8, memory, writeBigUInt64BE(BigIntOf(update.publishTime)))
        parts == << WriteUnsafe(8, memory, writeBigInt64BE(update.priceValue)),
                    WriteUnsafe(8, memory, writeBigUInt64BE(update.confidence)),
                    WriteUnsafe(4, memory, writeInt32BE(update.exponent)),
                    timeBuffer,
                    WriteUnsafe(8, memory, writeBigInt64BE(update.emaPrice)),
                    WriteUnsafe(8, memory, writeBigUInt64BE(update.emaConfidence)) >>
        failed == FirstFailure(parts)
    IN IF ~failed.ok THEN failed
       ELSE UnsafeSized(<<0>> \o BufferFromHex(Slice2(update.feedId)) \o parts[1].val
                        \o parts[2].val \o parts[3].val \o parts[4].val \o parts[4].val
                        \o parts[5].val \o parts[6].val, memory)

\* The result of a call that started at startTime and ended at endTime:
\* timestamp: Date.now(), metadata.processingTime: Date.now() - startTime
Timed(result, startTime, endTime) ==
    [success |-> result.success, data |-> result.data, error |-> result.error,
     timestamp |-> endTime, processingTime |-> endTime - startTime]

----------------------------------------------------------------------------
(* PythDataDecoder.validateDecodedData (utils/decoder.ts) *)

\* The errors the forEach callback pushes for one record ("Update <index>: ...")
UpdateErrors(update, index) ==
    (IF update.feedId = <<>> \/ ~StartsWith0x(update.feedId)
     THEN <<Err("Invalid feed ID format", <<index>>)>> ELSE <<>>)
    \o (IF update.priceValue.t # "bigint"
        THEN <<Err("Price value is not a bigint", <<index>>)>> ELSE <<>>)
    \o (IF update.confidence.t # "bigint"
        THEN <<Err("Confidence is not a bigint", <<index>>)>> ELSE <<>>)
    \o (IF update.exponent.t # "number"
        THEN <<Err("Exponent is not a number", <<index>>)>> ELSE <<>>)
    \o (IF update.publishTime.t # "number"
        THEN <<Err("Publish time is not a number", <<index>>)>> ELSE <<>>)

RECURSIVE EachUpdateErrors(_, _)
\* decodedUpdates.forEach((update, index) => ...), from index on
EachUpdateErrors(items, index) ==
    IF index >= Len(items) THEN <<>>
    ELSE UpdateErrors(items[index + 1], index) \o EachUpdateErrors(items, index + 1)

validateDecodedData(decodedUpdates) ==
    IF ~IsArr(decodedUpdates)
    THEN [isValid |-> FALSE, errors |-> <<Err("Decoded updates is not an array", <<>>)>>]
    ELSE [isValid |-> EachUpdateErrors(decodedUpdates.items, 0) = <<>>,
          errors |-> EachUpdateErrors(decodedUpdates.items, 0)]

----------------------------------------------------------------------------
(* PythDataEncoder.validateReencodedData (utils/encoder.ts) *)

Str(chars) == [t |-> "string", chars |-> chars]
IsStr(v) == v.t = "string"

MinHeaderBytes == 11
MessagesOffset == 13

DataTooShort == Err("Data too short for valid Pyth accumulator update", <<>>)
InvalidMagic(magic) == Err("Invalid magic number", magic)
UnexpectedVersion(major, minor) == Err("Unexpected version", <<major, minor>>)
NonZeroTrailing(size) == Err("Non-zero trailing header size", <<size>>)
InvalidUpdateType(type) == Err("Invalid update type", <<type>>)
ExpectedUpdates(expected, found) == Err("Expected updates, found", <<expected, found>>)
TruncatedSize(i) == Err("Truncated data: cannot read message size", <<i>>)
TruncatedMessage(i, size, remaining) == Err("Truncated data: message claims size", <<i, size, remaining>>)
MissingFeedId(id) == Err("Missing expected feed ID", id)
UnexpectedFeedId(id) == Err("Unexpected feed ID found", id)
ValidationError(e) == Err("Validation error", <<e.msg>>)

\* Faulty variant: isValid is computed from the warnings, not from the errors
ValidationResult_ByWarnings(isValid, errors, warnings, expectedFeeds, actualFeeds, dataSize) ==
    [isValid |-> warnings = <<>>, errors |-> errors, warnings |-> warnings,
     metadata |-> [expectedFeeds |-> expectedFeeds, actualFeeds |-> actualFeeds,
                   dataSize |-> dataSize]]

\* Faulty variant: a warning fails the result as an error does
ValidationResult_Strict(isValid, errors, warnings, expectedFeeds, actualFeeds, dataSize) ==
    [isValid |-> isValid /\ warnings = <<>>, errors |-> errors, warnings |-> warnings,
     metadata |-> [expectedFeeds |-> expectedFeeds, actualFeeds |-> actualFeeds,
                   dataSize |-> dataSize]]

ValidationResult(isValid, errors, warnings, expectedFeeds, actualFeeds, dataSize) ==
    [isValid |-> isValid, errors |-> errors, warnings |-> warnings,
     metadata |-> [expectedFeeds |-> expectedFeeds, actualFeeds |-> actualFeeds,
                   dataSize |-> dataSize]]

RECURSIVE WalkMessages(_, _, _, _, _, _)
\* The for loop over the declared messages: the errors and the feed ids it collects.
WalkMessages(buffer, i, numUpdates, offset, errors, parsedFeedIds) ==
    IF i >= numUpdates THEN [errors |-> errors, parsedFeedIds |-> parsedFeedIds]
    ELSE IF offset + 2 > Len(buffer)
    THEN [errors |-> Append(errors, TruncatedSize(i)), parsedFeedIds |-> parsedFeedIds]
    ELSE
      LET messageSize == buffer[offset + 1] * 256 + buffer[offset + 2]
          afterSize == offset + 2
      IN IF afterSize + messageSize > Len(buffer)
         THEN [errors |-> Append(errors, TruncatedMessage(i, messageSize, Len(buffer) - afterSize)),
               parsedFeedIds |-> parsedFeedIds]
         ELSE
           LET afterType == afterSize + 1
               ids == IF afterType + 32 <= Len(buffer)
                      THEN Append(parsedFeedIds,
                                  <<"0", "x">> \o BufferToHex(Subarray(buffer, afterType, afterType + 32)))
                      ELSE parsedFeedIds
           IN WalkMessages(buffer, i + 1, numUpdates, afterType + messageSize - 1, errors, ids)

RECURSIVE ExpectedFeedIds(_, _)
\* selectedIndices.map(i => originalUpdates[i]?.feedId).filter(Boolean)
ExpectedFeedIds(items, indices) ==
    IF indices = <<>> THEN <<>>
    ELSE LET hit == ElementAt(items, indices[1])
             id == IF hit = <<>> \/ hit[1].feedId = <<>> THEN <<>> ELSE <<hit[1].feedId>>
         IN id \o ExpectedFeedIds(items, Tail(indices))

Includes(list, x) == \E k \in 1..Len(list) : list[k] = x

\* Faulty variant: the test is inverted, the elements that are included are reported
NotIncluded_Inverted(list, other) ==
    LET Reported(x) == Includes(other, x) IN SelectSeq(list, Reported)

\* The errors (MissingFeedId) or warnings (UnexpectedFeedId) of one forEach, in order
RECURSIVE NotIncluded(_, _)
NotIncluded(list, other) ==
    IF list = <<>> THEN <<>>
    ELSE (IF Includes(other, list[1]) THEN <<>> ELSE <<list[1]>>) \o NotIncluded(Tail(list), other)

\* The try block: Ok(result) when it returns, or what it had collected when it threw.
ValidateTry(originalUpdates, reencodedHex, indices) ==
    LET Thrown(e, errors, warnings) ==
            [ok |-> FALSE, error |-> e, errors |-> errors, warnings |-> warnings]
        Returned(result) == [ok |-> TRUE, result |-> result]
    IN
    IF ~IsStr(reencodedHex) THEN Thrown(ERR_INVALID_ARG_TYPE, <<>>, <<>>)
    ELSE
      LET buffer == BufferFromHex(reencodedHex.chars) IN
      IF Len(buffer) < MinHeaderBytes
      THEN IF ~IsArr(indices) THEN Thrown(TypeErrorUndefined, <<DataTooShort>>, <<>>)
           ELSE Returned(ValidationResult(FALSE, <<DataTooShort>>, <<>>,
                                          Len(indices.items), 0, Len(buffer)))
      ELSE
        LET magic == Bytes(buffer, 0, 4)
            majorVersion == buffer[5] * 256 + buffer[6]
            minorVersion == buffer[7] * 256 + buffer[8]
            trailingHeaderSize == buffer[9] * 256 + buffer[10]
            updateType == buffer[11]
            errors1 == IF magic # MAGIC THEN <<InvalidMagic(magic)>> ELSE <<>>
            warnings1 == IF majorVersion # 1 \/ minorVersion # 0
                         THEN <<UnexpectedVersion(majorVersion, minorVersion)>> ELSE <<>>
            warnings2 == warnings1 \o (IF trailingHeaderSize # 0
                                       THEN <<NonZeroTrailing(trailingHeaderSize)>> ELSE <<>>)
            errors2 == errors1 \o (IF updateType # 0 THEN <<InvalidUpdateType(updateType)>> ELSE <<>>)
            numUpdates == readUInt16BE(buffer, 11)
        IN
        IF ~numUpdates.ok THEN Thrown(numUpdates.error, errors2, warnings2)
        ELSE IF ~IsArr(indices) THEN Thrown(TypeErrorUndefined, errors2, warnings2)
        ELSE
          LET errors3 == errors2 \o (IF numUpdates.val # Len(indices.items)
                                     THEN <<ExpectedUpdates(Len(indices.items), numUpdates.val)>>
                                     ELSE <<>>)
              walked == WalkMessages(buffer, 0, numUpdates.val, MessagesOffset, errors3, <<>>)
          IN
          IF indices.items # <<>> /\ ~IsArr(originalUpdates)
          THEN Thrown(TypeErrorUndefined, walked.errors, warnings2)
          ELSE
            LET expectedFeedIds == IF indices.items = <<>> THEN <<>>
                                   ELSE ExpectedFeedIds(originalUpdates.items, indices.items)
                missing == NotIncluded(expectedFeedIds, walked.parsedFeedIds)
                unexpected == NotIncluded(walked.parsedFeedIds, expectedFeedIds)
                errors == walked.errors \o [k \in 1..Len(missing) |-> MissingFeedId(missing[k])]
                warnings == warnings2 \o [k \in 1..Len(unexpected) |-> UnexpectedFeedId(unexpected[k])]
            IN Returned(ValidationResult(errors = <<>>, errors, warnings,
                                         Len(indices.items), numUpdates.val, Len(buffer)))

\* The outcome of the call: [threw, error] when an exception leaves the method,
\* [threw = FALSE, result] otherwise.
Threw(e) == [threw |-> TRUE, result |-> <<>>, error |-> e]
Returns(result) == [threw |-> FALSE, result |-> <<result>>, error |-> NoError]

validateReencodedData(originalUpdates, reencodedHex, indices) ==
    LET try == ValidateTry(originalUpdates, reencodedHex, indices) IN
    IF try.ok THEN Returns(try.result)
    ELSE \* catch (error): the handler reads selectedIndices.length again
      IF ~IsArr(indices) THEN Threw(TypeErrorUndefined)
      ELSE Returns(ValidationResult(FALSE, Append(try.errors, ValidationError(try.error)),
                                    try.warnings, Len(indices.items), 0, 0))

----------------------------------------------------------------------------
(* PythDataEncoder.createUpdatePriceFeedsCalldata (utils/encoder.ts) *)

functionSelector == <<"0", "x", "a", "9", "8", "5", "2", "b", "c", "c">>

RECURSIVE ToString16(_)
\* n.toString(16) for an integer n >= 0
ToString16(n) ==
    IF n < 16 THEN <<HexChars[n + 1]>> ELSE ToString16(n \div 16) \o <<HexChars[(n % 16) + 1]>>

\* str.padStart(width, '0')
PadStart0(str, width) ==
    IF Len(str) >= width THEN str ELSE [i \in 1..(width - Len(str)) |-> "0"] \o str

WordHexChars == 64

\* Faulty variant: the padding counted in bytes is used as a count of hex digits
PaddingChars_Unscaled(len) == (32 - ((len \div 2) % 32)) % 32

\* Faulty variant: without the outer modulo, a full word of padding after aligned data
PaddingChars_Always(len) == 64 - (len % 64)

\* Twice paddingNeeded = (32 - (updateData.length / 2) % 32) % 32, for a string of len characters
PaddingChars(len) == (64 - (len % 64)) % 64

\* (updateData.length / 2).toString(16).padStart(64, '0'): half a byte shows as ".8"
LengthWord(len) ==
    PadStart0(ToString16(len \div 2) \o (IF len % 2 = 1 THEN <<".", "8">> ELSE <<>>), WordHexChars)

\* The offset word: 32, as 64 hex digits
OffsetWord == [i \in 1..WordHexChars |-> IF i = WordHexChars - 1 THEN "2" ELSE "0"]

\* updateData is the argument without its 0x prefix
Calldata(updateData) ==
    functionSelector \o OffsetWord \o LengthWord(Len(updateData))
    \o updateData \o [i \in 1..PaddingChars(Len(updateData)) |-> "0"]

createUpdatePriceFeedsCalldata(encoded) ==
    Calldata(IF StartsWith0x(encoded) THEN Slice2(encoded) ELSE encoded)

----------------------------------------------------------------------------
(* estimateGasCost (utils/encoder.ts, ProductionPythClient) *)

baseCost == 50000
perFeedCost == 30000

\* Faulty variant: one feed too many is charged
estimateGasCost_OneMore(n) == baseCost + ((n + 1) * perFeedCost)

\* PythDataEncoder.estimateGasCost(numFeeds)
estimateGasCost(n) == baseCost + (n * perFeedCost)

productionBaseCost == 100000
perUpdateCost == 50000

\* ProductionPythClient.estimateGasCost(updateCount)
ProductionEstimateGasCost(updateCount) == productionBaseCost + (updateCount * perUpdateCost)

----------------------------------------------------------------------------
(* HermesApiClient (utils/api.ts): price feed ids *)

\* Faulty variant: the number of hex digits is not checked
MatchesPriceId_AnyLength(id) ==
    StartsWith0x(id) /\ \A i \in 3..Len(id) : HexValue(id[i]) >= 0

\* /^0x[a-fA-F0-9]{64}$/.test(id)
MatchesPriceId(id) ==
    Len(id) = 66 /\ StartsWith0x(id) /\ \A i \in 3..66 : HexValue(id[i]) >= 0

RECURSIVE PartitionIds(_, _, _)
\* priceIds.forEach(id => { if (matches) valid.push(id); else invalid.push(id); })
PartitionIds(priceIds, valid, invalid) ==
    IF priceIds = <<>> THEN [valid |-> valid, invalid |-> invalid]
    ELSE IF MatchesPriceId(Head(priceIds))
         THEN PartitionIds(Tail(priceIds), Append(valid, Head(priceIds)), invalid)
         ELSE PartitionIds(Tail(priceIds), valid, Append(invalid, Head(priceIds)))

\* HermesApiClient.validatePriceIds(priceIds), priceIds an array
validatePriceIds(priceIds) == PartitionIds(priceIds, <<>>, <<>>)

RECURSIVE Unique(_, _)
\* [...new Set(list)]: the first occurrence of each element, in order
Unique(list, seen) ==
    IF list = <<>> THEN seen
    ELSE Unique(Tail(list), IF Includes(seen, Head(list)) THEN seen ELSE Append(seen, Head(list)))

----------------------------------------------------------------------------
(* HermesApiClient (utils/api.ts): makeRequest and the four fetch strategies *)

RETRY_DELAY == 1000      \* REQUEST_CONFIG.RETRY_DELAY, the default of config.retryDelay
MethodDelay == 1000      \* delay before the next strategy is tried
BatchDelay == 500        \* delay after a batch that was fetched, unless it was the last
IndividualDelay == 200   \* delay after every feed that was fetched on its own

\* makeRequest(url) right after it was called: no attempt made yet
NewRequest(ids) ==
    [status |-> "pending", ids |-> ids, attempts |-> <<>>, waits |-> 0,
     response |-> <<>>, error |-> NoError]

\* axios.get resolved with status 200 and data: makeRequest returns the response
Responds(r, data) ==
    [r EXCEPT !.status = "returned", !.attempts = Append(@, [ok |-> TRUE, error |-> NoError]),
              !.response = <<data>>]

\* Faulty variant: the delay is taken after the last failed attempt as well
Fails_AlwaysWaits(r, error, retryAttempts) ==
    [r EXCEPT !.attempts = Append(@, [ok |-> FALSE, error |-> error]),
              !.error = error,
              !.waits = @ + 1,
              !.status = IF Len(r.attempts) + 1 < retryAttempts THEN "pending" ELSE "thrown"]

\* The catch block of makeRequest: lastError = error; a delay when attempts are left;
\* after the loop, throw lastError
Fails(r, error, retryAttempts) ==
    [r EXCEPT !.attempts = Append(@, [ok |-> FALSE, error |-> error]),
              !.error = error,
              !.waits = IF Len(r.attempts) + 1 < retryAttempts THEN @ + 1 ELSE @,
              !.status = IF Len(r.attempts) + 1 < retryAttempts THEN "pending" ELSE "thrown"]

\* batchSize of fetchWithBatchSize as strategy 2 and as strategy 3
BatchSize(method) == IF method = 2 THEN 10 ELSE 5

\* Strategies 2 and 3 split the ids in batches (otherwise they are fetchWithArrayParams)
Batched(method, ids) == method \in {2, 3} /\ Len(ids) > BatchSize(method)

\* batches.length
NumBatches(ids, batchSize) == (Len(ids) + batchSize - 1) \div batchSize

\* priceIds.slice(i, i + batchSize) of batch number batch (from 0)
BatchOf(ids, batchSize, batch) ==
    SubSeq(ids, batch * batchSize + 1,
           IF (batch + 1) * batchSize < Len(ids) THEN (batch + 1) * batchSize ELSE Len(ids))

\* The ids of the request that a strategy makes at position step (from 0) of its loop
RequestIds(method, ids, step) ==
    IF method = 4 THEN <<ids[step + 1]>>
    ELSE IF Batched(method, ids) THEN BatchOf(ids, BatchSize(method), step)
    ELSE ids

\* The number of requests a strategy makes
NumRequests(method, ids) ==
    IF method = 4 THEN Len(ids)
    ELSE IF Batched(method, ids) THEN NumBatches(ids, BatchSize(method))
    ELSE 1

\* What fetchLatestPriceUpdates, its strategy and makeRequest hold after a step
Step(f, r, t) == [fetch |-> f, request |-> r, now |-> t]

\* methods[i]() is called: the strategy starts with its first request
Begin(f, method, t) ==
    Step([f EXCEPT !.method = method, !.step = 0, !.allParsed = 0, !.binaries = <<>>,
                   !.errors = <<>>],
         <<NewRequest(RequestIds(method, f.validIds, 0))>>, t)

\* return { success: true, data: response.data, ... }
Resolved(f, data, t) ==
    Step([f EXCEPT !.status = "resolved",
                   !.result = <<[success |-> TRUE, data |-> <<data>>, error |-> NoError,
                                 totalFeeds |-> Len(f.priceIds.items),
                                 successfulFeeds |-> data.parsed,
                                 processingTime |-> t - f.startTime]>>],
         <<>>, t)

\* The outer catch block: return { success: false, error: error.message, ... }
Failed(f, error, t) ==
    Step([f EXCEPT !.status = "resolved",
                   !.result = <<[success |-> FALSE, data |-> <<>>, error |-> error,
                                 totalFeeds |-> Len(f.priceIds.items),
                                 successfulFeeds |-> 0,
                                 processingTime |-> t - f.startTime]>>],
         <<>>, t)

\* The catch block of the loop over the strategies: lastError = error; a delay and the
\* next strategy when there is one; after the loop, throw lastError
MethodFailed(f, error, t) ==
    IF f.method < 4
    THEN Begin([f EXCEPT !.lastError = error, !.failed = Append(@, f.method)],
               f.method + 1, t + MethodDelay)
    ELSE Failed([f EXCEPT !.lastError = error, !.failed = Append(@, f.method)], error, t)

\* The loop of a strategy after its request number f.step settled: the next request,
\* or the end of the loop with the response combined from what was collected
Advance(f, t, emptyError) ==
    IF f.step + 1 < NumRequests(f.method, f.validIds)
    THEN Step([f EXCEPT !.step = @ + 1],
              <<NewRequest(RequestIds(f.method, f.validIds, f.step + 1))>>, t)
    ELSE IF f.allParsed = 0 THEN MethodFailed(f, emptyError, t)
    ELSE Resolved(f, [parsed |-> f.allParsed,
                      binary |-> IF f.binaries = <<>> THEN <<>> ELSE f.binaries[1]], t)

----------------------------------------------------------------------------
(* Inputs: the records and index lists a caller passes in *)

Update(feedId, priceValue, confidence, exponent, publishTime, emaPrice, emaConfidence, slot) ==
    [feedId |-> feedId, priceValue |-> priceValue, confidence |-> confidence,
     exponent |-> exponent, publishTime |-> publishTime, emaPrice |-> emaPrice,
     emaConfidence |-> emaConfidence, slot |-> slot]

\* The three mockUpdates of tests/encoder.test.ts
BtcFeedId ==
    <<"0", "x",
        "e", "6", "2", "d", "f", "6", "c", "8", "b", "4", "a", "8", "5", "f", "e", "1",
        "a", "6", "7", "d", "b", "4", "4", "d", "c", "1", "2", "d", "e", "5", "d", "b",
        "3", "3", "0", "f", "7", "a", "c", "6", "6", "b", "7", "2", "d", "c", "6", "5",
        "8", "a", "f", "e", "d", "f", "0", "f", "4", "a", "4", "1", "5", "b", "4", "3">>
EthFeedId ==
    <<"0", "x",
        "f", "f", "6", "1", "4", "9", "1", "a", "9", "3", "1", "1", "1", "2", "d", "d",
        "f", "1", "b", "d", "8", "1", "4", "7", "c", "d", "1", "b", "6", "4", "1", "3",
        "7", "5", "f", "7", "9", "f", "5", "8", "2", "5", "1", "2", "6", "d", "6", "6",
        "5", "4", "8", "0", "8", "7", "4", "6", "3", "4", "f", "d", "0", "a", "c", "e">>
UsdcFeedId ==
    <<"0", "x",
        "2", "b", "8", "9", "b", "9", "d", "c", "8", "f", "d", "f", "9", "f", "3", "4",
        "7", "0", "9", "a", "5", "b", "1", "0", "6", "b", "4", "7", "2", "f", "0", "f",
        "3", "9", "b", "b", "6", "c", "a", "9", "c", "e", "0", "4", "b", "0", "f", "d",
        "7", "f", "2", "e", "9", "7", "1", "6", "8", "8", "e", "2", "e", "5", "3", "b">>

\* A feed id made of the 64 hex digits digit(i) = (seed + 3 i) mod 16
SyntheticFeedId(seed) == <<"0", "x">> \o [i \in 1..64 |-> HexChars[((seed + 3 * i) % 16) + 1]]

Max64 == <<255, 255, 255, 255, 255, 255, 255, 255>>      \* 2^64 - 1
MaxI64 == <<127, 255, 255, 255, 255, 255, 255, 255>>     \* 2^63 - 1
Pow63 == <<128, 0, 0, 0, 0, 0, 0, 0>>                    \* 2^63
MaxI32 == <<127, 255, 255, 255>>                         \* 2^31 - 1
Pow31 == <<128, 0, 0, 0>>                                \* 2^31
MaxSafe == <<31, 255, 255, 255, 255, 255, 255>>          \* 2^53 - 1
Pow53 == <<32, 0, 0, 0, 0, 0, 0>>                        \* 2^53
PublishTime == <<102, 52, 242, 245>>                     \* 1714746101

mockUpdates == <<
    Update(BtcFeedId, Big(FALSE, <<5, 149, 207, 188, 119, 72>>), Big(FALSE, <<195, 248, 228, 151>>),
           Num(TRUE, <<8>>), Num(FALSE, PublishTime), Big(FALSE, <<5, 138, 222, 252, 67, 96>>),
           Big(FALSE, <<226, 18, 223, 248>>), 138881186),
    Update(EthFeedId, Big(FALSE, <<75, 173, 15>>), Big(FALSE, <<21, 89>>),
           Num(TRUE, <<8>>), Num(FALSE, PublishTime), Big(FALSE, <<76, 7, 66>>),
           Big(FALSE, <<21, 160>>), 138881186),
    Update(UsdcFeedId, Big(FALSE, <<5, 245, 225, 0>>), Big(FALSE, <<195, 80>>),
           Num(TRUE, <<8>>), Num(FALSE, PublishTime), Big(FALSE, <<5, 245, 225, 0>>),
           Big(FALSE, <<195, 80>>), 138881186) >>

\* Records at the ends of every field's range
edgeUpdates == <<
    Update(SyntheticFeedId(0), Big(TRUE, Pow63), Big(FALSE, <<>>), Num(TRUE, Pow31),
           Num(FALSE, <<>>), Big(TRUE, <<1>>), Big(FALSE, Max64), 0),
    Update(SyntheticFeedId(5), Big(FALSE, MaxI64), Big(FALSE, Max64), Num(FALSE, MaxI32),
           Num(FALSE, MaxSafe), Big(FALSE, MaxI64), Big(FALSE, <<>>), 1),
    Update(SyntheticFeedId(10), Big(TRUE, <<1>>), Big(FALSE, <<1, 0>>), Num(FALSE, <<>>),
           Num(FALSE, <<1>>), Big(TRUE, Pow63), Big(FALSE, <<255>>), 2) >>

\* Records the encoder accepts although their feed id is not in the decoder's rendering,
\* or a field is outside the range the round trip is claimed for
looseUpdates == <<
    Update(Slice2(SyntheticFeedId(3)), Big(FALSE, <<7>>), Big(FALSE, <<1>>), Num(TRUE, <<2>>),
           Num(FALSE, PublishTime), Big(FALSE, <<7>>), Big(FALSE, <<1>>), 3),
    Update(<<"0", "x">> \o [i \in 1..64 |-> IF i % 2 = 0 THEN "A" ELSE "1"], Big(FALSE, <<9>>),
           Big(FALSE, <<2>>), Num(TRUE, <<2>>), Num(FALSE, PublishTime), Big(FALSE, <<9>>),
           Big(FALSE, <<2>>), 4),
    Update(SyntheticFeedId(7), Big(FALSE, <<9>>), Big(FALSE, <<2>>), Num(TRUE, <<2>>),
           Num(FALSE, Pow53), Big(FALSE, <<9>>), Big(FALSE, <<2>>), 4) >>

\* Records the encoder rejects
badUpdates == <<
    Update(SubSeq(SyntheticFeedId(1), 1, 64), Big(FALSE, <<1>>), Big(FALSE, <<1>>), Num(TRUE, <<8>>),
           Num(FALSE, PublishTime), Big(FALSE, <<1>>), Big(FALSE, <<1>>), 5),
    Update(SyntheticFeedId(2), Big(FALSE, Pow63), Big(FALSE, <<1>>), Num(TRUE, <<8>>),
           Num(FALSE, PublishTime), Big(FALSE, <<1>>), Big(FALSE, <<1>>), 6),
    Update(SyntheticFeedId(4), Num(FALSE, <<4, 210>>), Big(FALSE, <<1>>), Num(TRUE, <<8>>),
           Num(FALSE, PublishTime), Big(FALSE, <<1>>), Big(FALSE, <<1>>), 7),
    Update(SyntheticFeedId(6), Big(FALSE, <<1>>), Big(TRUE, <<1>>), Num(FALSE, Pow31),
           Num(FALSE, PublishTime), Big(FALSE, <<1>>), Big(FALSE, <<1>>), 8),
    Update(<<"i", "n", "v", "a", "l", "i", "d", "-", "i", "d">>, Big(FALSE, <<1>>), Big(FALSE, <<1>>),
           Num(TRUE, <<8>>), Num(FALSE, PublishTime), Big(FALSE, <<1>>), Big(FALSE, <<1>>), 9) >>

validPool == mockUpdates \o edgeUpdates
anyPool == validPool \o looseUpdates \o badUpdates

\* n consecutive records of a pool, starting at its record start (wrapping around)
Window(pool, start, n) == [k \in 1..n |-> pool[((start + k - 2) % Len(pool)) + 1]]

MaxRecords == 3      \* records in allUpdates
MaxSelected == 2     \* entries of selectedIndices

RECURSIVE SeqsUpTo(_, _)
\* every sequence over S of length at most n
SeqsUpTo(S, n) ==
    IF n = 0 THEN {<<>>}
    ELSE LET shorter == SeqsUpTo(S, n - 1) IN
         shorter \cup {Append(q, x) : q \in {r \in shorter : Len(r) = n - 1}, x \in S}

UpdatesInputs ==
    {Null} \cup {Arr(Window(anyPool, start, n)) : start \in 1..Len(anyPool), n \in 0..MaxRecords}

IndexInputs == {Null} \cup {Arr(q) : q \in SeqsUpTo(-1..MaxRecords, MaxSelected)}

EmptyResponse == [isNull |-> FALSE, binary |-> <<>>, parsed |-> <<>>]
ResponseOf(hex) == [isNull |-> FALSE, binary |-> <<[data |-> <<hex>>]>>, parsed |-> <<<<>>>>]

----------------------------------------------------------------------------
(* Inputs: the bytes a Hermes response carries (wire format of the accumulator update) *)

MaxWireRecords == 2      \* messages in a received buffer
MaxTrailing == 1         \* trailing header size T of a received buffer
MaxExtra == 1            \* bytes a received message carries after ema_confidence

\* n bytes 0xaa
Filler(n) == [i \in 1..n |-> 170]

\* The message with its length field raised by extra and extra bytes appended
Extended(message, extra) ==
    writeUInt16BE(Len(message) - 2 + extra).val \o SubSeq(message, 3, Len(message)) \o Filler(extra)

\* A message whose length field is 85 + extra: the fields of update, then extra bytes
WireMessage(update, extra) == Extended(encodeSinglePriceUpdate(update).val, extra)

RECURSIVE WireMessages(_, _)
WireMessages(updates, extra) ==
    IF updates = <<>> THEN <<>>
    ELSE WireMessage(updates[1], extra) \o WireMessages(Tail(updates), extra)

\* magic, version 1.0, T, T header-extension bytes, update type 0, count, messages
Wire(updates, trailing, extra) ==
    MAGIC \o <<0, 1, 0, 0>> \o writeUInt16BE(trailing).val \o Filler(trailing) \o <<0>>
    \o writeUInt16BE(Len(updates)).val \o WireMessages(updates, extra)

WellFormedWires ==
    {Wire(Window(validPool, 1, n), t, e) :
        n \in 0..MaxWireRecords, t \in {0, MaxTrailing}, e \in {0, MaxExtra}}

\* The buffers received: well-formed, cut short anywhere, with one magic byte changed,
\* with another update type (offset 10 + T), with another type in one message, with
\* major version 2, or with the value 1 in the trailing header size and nothing added
ReceivedBuffers ==
    WellFormedWires
    \cup UNION {{SubSeq(w, 1, c) : c \in 0..(Len(w) - 1)} : w \in WellFormedWires}
    \cup UNION {{[w EXCEPT ![k] = (@ + 1) % 256] : k \in 1..4} : w \in WellFormedWires}
    \cup {[Wire(Window(validPool, 1, n), t, e) EXCEPT ![11 + t] = 1] :
             n \in 0..MaxWireRecords, t \in {0, MaxTrailing}, e \in {0, MaxExtra}}
    \cup UNION {{[Wire(Window(validPool, 1, n), t, e)
                     EXCEPT ![MessagesOffset + t + (87 + e) * (k - 1) + 3] = 1] : k \in 1..n} :
                   n \in 1..MaxWireRecords, t \in {0, MaxTrailing}, e \in {0, MaxExtra}}
    \cup UNION {{[Wire(Window(validPool, 1, n), 0, 0) EXCEPT ![k] = @ + 1] : k \in {6, 10}} :
                   n \in 0..MaxWireRecords}

NotHex == <<"i", "n", "v", "a", "l", "i", "d", "-", "h", "e", "x", "-", "d", "a", "t", "a">>

ResponseInputs ==
    {ResponseOf(BufferToHex(b)) : b \in ReceivedBuffers}
    \cup {[ResponseOf(BufferToHex(w)) EXCEPT !.parsed = <<>>] : w \in WellFormedWires}
    \cup {[isNull |-> TRUE, binary |-> <<>>, parsed |-> <<>>], EmptyResponse,
          [isNull |-> FALSE, binary |-> <<[data |-> <<>>]>>, parsed |-> <<<<>>>>],
          ResponseOf(NotHex)}

\* The hex string of a response, as a caller passes it on (null when there is none)
HexOfResponse(response) ==
    IF response.isNull \/ response.binary = <<>> THEN Null
    ELSE IF response.binary[1].data = <<>> THEN Null
    ELSE Str(response.binary[1].data[1])

WireIndexInputs ==
    {Null, Arr(<<0, 0>>)} \cup {Arr([k \in 1..n |-> k - 1]) : n \in 0..MaxWireRecords}

----------------------------------------------------------------------------
(* validateUpdate (scripts/validateUpdate.ts): the validation report *)

expectedSelectedCount == 5   \* Validation 2: the number of feeds that should be selected
MinCalldataLength == 200     \* Validation 4: fewer characters are reported as too short
MaxPowerOfTen == 308         \* Math.pow(10, n) is Infinity for n > 308

\* str.startsWith(prefix)
StartsWith(str, prefix) ==
    Len(str) >= Len(prefix) /\ SubSeq(str, 1, Len(prefix)) = prefix

\* Math.pow(10, Math.abs(exponent)) is Infinity
PowerOverflows(exponent) ==
    \/ Len(StripZeros(exponent.mag)) > 2
    \/ /\ Len(StripZeros(exponent.mag)) = 2
       /\ StripZeros(exponent.mag)[1] * 256 + StripZeros(exponent.mag)[2] > MaxPowerOfTen

\* The sign of the readable value that scripts/decodePriceData.ts derives from a bigint,
\* parseFloat(value.toString()) / Math.pow(10, Math.abs(exponent)), and that
\* scripts/reencodeSelected.ts copies as (readable || 0)
ReadableSign(value, exponent) ==
    IF StripZeros(value.mag) = <<>> \/ PowerOverflows(exponent) THEN 0
    ELSE IF value.neg THEN -1 ELSE 1

\* Validation 5: no selected feed has price <= 0 or confidence < 0
priceValidationPassed(selectedFeeds) ==
    \A k \in 1..Len(selectedFeeds) :
        /\ ReadableSign(selectedFeeds[k].priceValue, selectedFeeds[k].exponent) > 0
        /\ ReadableSign(selectedFeeds[k].confidence, selectedFeeds[k].exponent) >= 0

\* The report saved to validation_report.json (without its times and its gas limit).
\* The round-trip test only logs what it finds: nothing of it enters the report
validationReport(reencoded, decodedFeedCount, data) ==
    [allValidationsPassed |-> priceValidationPassed(reencoded.selectedUpdates),
     dataIntegrity |-> [decodedFeedCount |-> decodedFeedCount,
                        selectedFeedCount |-> reencoded.selectedCount],
     roundTripTest |-> [attempted |-> TRUE, successful |-> TRUE],
     calldataValidation |-> [hasFunctionSelector |-> StartsWith(data, functionSelector),
                             reasonableLength |-> Len(data) >= MinCalldataLength],
     priceDataValidation |->
         [allPricesPositive |-> priceValidationPassed(reencoded.selectedUpdates),
          confidenceReasonable |-> priceValidationPassed(reencoded.selectedUpdates)],
     summary |-> [readyForOnChainUse |-> priceValidationPassed(reencoded.selectedUpdates)]]

----------------------------------------------------------------------------
(* The re-encoding pipeline (scripts/reencodeSelected.ts, scripts/validateUpdate.ts) *)

Init ==
    /\ pc = "reencode"
    /\ allUpdates \in UpdatesInputs
    /\ selectedIndices \in IndexInputs
    /\ encodeResult = <<>>
    /\ hermesResponse = EmptyResponse
    /\ decodeResult = <<>>
    /\ validation = <<>>
    /\ encodedUpdate = Null
    /\ calldata = <<>>
    /\ numFeeds = 0
    /\ gas = <<>>
    /\ now = 0
    /\ calls = <<>>
    /\ fetch = <<>>
    /\ request = <<>>
    /\ report = <<>>

Reencode ==
    /\ pc = "reencode"
    /\ LET result == reencodeSelectedFeeds(allUpdates, selectedIndices) IN
       /\ encodeResult' = <<result>>
       /\ encodedUpdate' = IF result.success THEN Str(result.data[1].encodedData) ELSE Null
       /\ pc' = IF result.success THEN "validate" ELSE "done"
    /\ UNCHANGED <<allUpdates, selectedIndices, hermesResponse, decodeResult, validation, calldata>>
    /\ UNCHANGED <<numFeeds, gas, now, calls, fetch, request, report>>

\* The payload is validated; the script goes on only when no error was found
\* (throw new Error('Re-encoded data validation failed'))
ValidateEncoded ==
    /\ pc = "validate"
    /\ encodeResult # <<>>
    /\ validation' = <<validateReencodedData(allUpdates, encodedUpdate, selectedIndices)>>
    /\ pc' = IF ~validation'[1].threw /\ validation'[1].result[1].isValid
             THEN "calldata" ELSE "done"
    /\ UNCHANGED <<allUpdates, selectedIndices, encodeResult, hermesResponse, decodeResult,
                   encodedUpdate, calldata>>
    /\ UNCHANGED <<numFeeds, gas, now, calls, fetch, request, report>>

\* The calldata of the payload, given with and without the 0x prefix
CreateCalldata ==
    /\ pc = "calldata"
    /\ IsStr(encodedUpdate)
    /\ calldata' = <<createUpdatePriceFeedsCalldata(<<"0", "x">> \o encodedUpdate.chars),
                     createUpdatePriceFeedsCalldata(encodedUpdate.chars)>>
    /\ pc' = IF encodeResult # <<>> THEN "roundtrip" ELSE "done"
    /\ UNCHANGED <<allUpdates, selectedIndices, encodeResult, hermesResponse, decodeResult,
                   validation, encodedUpdate>>
    /\ UNCHANGED <<numFeeds, gas, now, calls, fetch, request, report>>

\* validateUpdate: the round-trip decoding test (the payload wrapped as a mock Hermes
\* response and decoded), then the report written from the re-encoded data
RoundTrip ==
    /\ pc = "roundtrip"
    /\ hermesResponse' = ResponseOf(encodedUpdate.chars)
    /\ decodeResult' = <<decodePriceUpdates(hermesResponse')>>
    /\ report' = <<validationReport(encodeResult[1].data[1], Len(allUpdates.items), calldata[2])>>
    /\ pc' = "done"
    /\ UNCHANGED <<allUpdates, selectedIndices, encodeResult, validation, encodedUpdate, calldata>>
    /\ UNCHANGED <<numFeeds, gas, now, calls, fetch, request>>

Next == Reencode \/ ValidateEncoded \/ CreateCalldata \/ RoundTrip

Spec == Init /\ [][Next]_vars

----------------------------------------------------------------------------
(* Decoding and validating received bytes (scripts/decodePriceData.ts, tests) *)

InitWire ==
    /\ pc = "decode"
    /\ allUpdates = Arr(Window(validPool, 1, MaxWireRecords))
    /\ selectedIndices = Null
    /\ encodeResult = <<>>
    /\ hermesResponse \in ResponseInputs
    /\ decodeResult = <<>>
    /\ validation = <<>>
    /\ encodedUpdate = HexOfResponse(hermesResponse)
    /\ calldata = <<>>
    /\ numFeeds = 0
    /\ gas = <<>>
    /\ now = 0
    /\ calls = <<>>
    /\ fetch = <<>>
    /\ request = <<>>
    /\ report = <<>>

Decode ==
    /\ pc = "decode"
    /\ decodeResult' = <<decodePriceUpdates(hermesResponse)>>
    /\ pc' = "validate"
    /\ UNCHANGED <<allUpdates, selectedIndices, encodeResult, hermesResponse, validation,
                   encodedUpdate, calldata>>
    /\ UNCHANGED <<numFeeds, gas, now, calls, fetch, request, report>>

ValidateReceived ==
    /\ pc = "validate"
    /\ encodeResult = <<>>
    /\ \E indices \in WireIndexInputs :
          /\ selectedIndices' = indices
          /\ validation' = <<validateReencodedData(allUpdates, encodedUpdate, indices)>>
    /\ pc' = "calldata"
    /\ UNCHANGED <<allUpdates, encodeResult, hermesResponse, decodeResult, encodedUpdate, calldata>>
    /\ UNCHANGED <<numFeeds, gas, now, calls, fetch, request, report>>

NextWire == Decode \/ ValidateReceived \/ CreateCalldata

SpecWire == InitWire /\ [][NextWire]_vars

----------------------------------------------------------------------------
(* Calldata of any string of hex digits (tests/encoder.test.ts, createUpdatePriceFeedsCalldata) *)

MaxHexChars == 70        \* characters of the string handed to createUpdatePriceFeedsCalldata

\* The strings of hex digits handed over: of every length, odd lengths included
HexStrings ==
    {SubSeq(BufferToHex(Wire(Window(validPool, 1, 1), 0, 0)), 1, n) : n \in 0..MaxHexChars}

InitCalldata ==
    /\ pc = "calldata"
    /\ allUpdates = Null
    /\ selectedIndices = Null
    /\ encodeResult = <<>>
    /\ hermesResponse = EmptyResponse
    /\ decodeResult = <<>>
    /\ validation = <<>>
    /\ encodedUpdate \in {Str(h) : h \in HexStrings}
    /\ calldata = <<>>
    /\ numFeeds = 0
    /\ gas = <<>>
    /\ now = 0
    /\ calls = <<>>
    /\ fetch = <<>>
    /\ request = <<>>
    /\ report = <<>>

NextCalldata == CreateCalldata

SpecCalldata == InitCalldata /\ [][NextCalldata]_vars

----------------------------------------------------------------------------
(* Gas estimates for growing feed counts (tests/encoder.test.ts, estimateGasCost) *)

MaxFeeds == 60           \* feed count of the first estimate taken

InitGas ==
    /\ pc = "gas"
    /\ allUpdates = Null
    /\ selectedIndices = Null
    /\ encodeResult = <<>>
    /\ hermesResponse = EmptyResponse
    /\ decodeResult = <<>>
    /\ validation = <<>>
    /\ encodedUpdate = Null
    /\ calldata = <<>>
    /\ numFeeds \in 0..MaxFeeds
    /\ gas = <<>>
    /\ now = 0
    /\ calls = <<>>
    /\ fetch = <<>>
    /\ request = <<>>
    /\ report = <<>>

\* cost1 = estimateGasCost(n), then cost2 = estimateGasCost(n + 1)
EstimateGas ==
    /\ pc = "gas"
    /\ Len(gas) < 2
    /\ gas' = Append(gas, [entry |-> "bytes", numFeeds |-> numFeeds,
                           cost |-> estimateGasCost(numFeeds)])
    /\ numFeeds' = numFeeds + 1
    /\ UNCHANGED <<pc, allUpdates, selectedIndices, encodeResult, hermesResponse, decodeResult,
                   validation, encodedUpdate, calldata, now, calls, fetch, request, report>>

EstimateProductionGas ==
    /\ pc = "gas"
    /\ Len(gas) < 2
    /\ gas' = Append(gas, [entry |-> "array", numFeeds |-> numFeeds,
                           cost |-> ProductionEstimateGasCost(numFeeds)])
    /\ numFeeds' = numFeeds + 1
    /\ UNCHANGED <<pc, allUpdates, selectedIndices, encodeResult, hermesResponse, decodeResult,
                   validation, encodedUpdate, calldata, now, calls, fetch, request, report>>

NextGas == EstimateGas \/ EstimateProductionGas

SpecGas == InitGas /\ [][NextGas]_vars

----------------------------------------------------------------------------
(* The codec called again and again, in any order (tests/decoder.test.ts) *)

MaxCalls == 3            \* calls made one after the other

InitRepeat ==
    /\ pc = "repeat"
    /\ allUpdates = Null
    /\ selectedIndices = Null
    /\ encodeResult = <<>>
    /\ hermesResponse = EmptyResponse
    /\ decodeResult = <<>>
    /\ validation = <<>>
    /\ encodedUpdate = Null
    /\ calldata = <<>>
    /\ numFeeds = 0
    /\ gas = <<>>
    /\ now = 0
    /\ calls = <<>>
    /\ fetch = <<>>
    /\ request = <<>>
    /\ report = <<>>

\* The call is put on record and the clock moves on
Called(method, argument, returned) ==
    /\ pc = "repeat"
    /\ Len(calls) < MaxCalls
    /\ calls' = Append(calls, [method |-> method, argument |-> argument, returned |-> returned])
    /\ now' = now + 1
    /\ UNCHANGED <<pc, allUpdates, selectedIndices, encodeResult, hermesResponse, decodeResult,
                   validation, encodedUpdate, calldata, numFeeds, gas, fetch, request, report>>

\* PythDataDecoder.decodePriceUpdates of the update of one or of two records
DecodeAgain ==
    \E n \in 1..2 :
        LET response == ResponseOf(BufferToHex(Wire(Window(validPool, 1, n), 0, 0))) IN
        Called("decodePriceUpdates", response, Timed(decodePriceUpdates(response), now, now + 1))

\* PythDataEncoder.reencodeSelectedFeeds of one or of two of the records
ReencodeAgain ==
    \E indices \in {Arr(<<0>>), Arr(<<1, 0>>)} :
        Called("reencodeSelectedFeeds", [allUpdates |-> Arr(mockUpdates), selectedIndices |-> indices],
               Timed(reencodeSelectedFeeds(Arr(mockUpdates), indices), now, now + 1))

\* PythDataDecoder.encodePriceUpdate of a record, in memory that held zeros or ones
EncodeAgain ==
    \E update \in {mockUpdates[1], edgeUpdates[1]}, memory \in {0, 255} :
        Called("encodePriceUpdate", update, encodePriceUpdate(update, memory))

NextRepeat == DecodeAgain \/ ReencodeAgain \/ EncodeAgain

SpecRepeat == InitRepeat /\ [][NextRepeat]_vars

----------------------------------------------------------------------------
(* The shape check of decoded records (tests/decoder.test.ts, validateDecodedData) *)

MaxShaped == 2           \* records handed to validateDecodedData

\* Records of every shape: as decoded, with a feed id that lacks the prefix, is in upper
\* case, is two digits short, is no hex at all or is empty, and with one field of the
\* other numeric type
ShapePool ==
    {mockUpdates[1], edgeUpdates[1], looseUpdates[1], looseUpdates[2], badUpdates[1],
     badUpdates[3], badUpdates[5],
     [mockUpdates[1] EXCEPT !.feedId = <<>>],
     [mockUpdates[2] EXCEPT !.confidence = Num(FALSE, <<1>>)],
     [mockUpdates[2] EXCEPT !.exponent = Big(TRUE, <<8>>)],
     [mockUpdates[3] EXCEPT !.publishTime = Big(FALSE, PublishTime)]}

InitShape ==
    /\ pc = "shape"
    /\ allUpdates \in {Null} \cup {Arr(q) : q \in SeqsUpTo(ShapePool, MaxShaped)}
    /\ selectedIndices = Null
    /\ encodeResult = <<>>
    /\ hermesResponse = EmptyResponse
    /\ decodeResult = <<>>
    /\ validation = <<>>
    /\ encodedUpdate = Null
    /\ calldata = <<>>
    /\ numFeeds = 0
    /\ gas = <<>>
    /\ now = 0
    /\ calls = <<>>
    /\ fetch = <<>>
    /\ request = <<>>
    /\ report = <<>>

ValidateDecoded ==
    /\ pc = "shape"
    /\ validation' = <<validateDecodedData(allUpdates)>>
    /\ pc' = "done"
    /\ UNCHANGED <<allUpdates, selectedIndices, encodeResult, hermesResponse, decodeResult,
                   encodedUpdate, calldata, numFeeds, gas, now, calls, fetch, request, report>>

SpecShape == InitShape /\ [][ValidateDecoded]_vars

----------------------------------------------------------------------------
(* A received publish time, decoded and encoded again
   (scripts/decodePriceData.ts, then scripts/reencodeSelected.ts) *)

\* Publish times as the wire carries them, eight bytes: small ones, those around 2^53
\* and the largest
TimeInputs ==
    {<<a, b, 0, 0, 0, 0, 0, c>> : a \in {0, 255}, b \in {0, 31, 32, 255}, c \in {0, 1, 2, 255}}
    \cup {Max64}

\* The buffer of one message whose publish_time field (offsets 55..62 of the message)
\* holds time
TimedWire(time) ==
    SubSeq(Wire(<<mockUpdates[1]>>, 0, 0), 1, MessagesOffset + 55) \o time
    \o SubSeq(Wire(<<mockUpdates[1]>>, 0, 0), MessagesOffset + 64, MessagesOffset + 87)

InitTime ==
    /\ pc = "decode"
    /\ allUpdates = Null
    /\ selectedIndices = Null
    /\ encodeResult = <<>>
    /\ hermesResponse \in {ResponseOf(BufferToHex(TimedWire(time))) : time \in TimeInputs}
    /\ decodeResult = <<>>
    /\ validation = <<>>
    /\ encodedUpdate = HexOfResponse(hermesResponse)
    /\ calldata = <<>>
    /\ numFeeds = 0
    /\ gas = <<>>
    /\ now = 0
    /\ calls = <<>>
    /\ fetch = <<>>
    /\ request = <<>>
    /\ report = <<>>

\* The decoded records are handed to the re-encoding (bigints as decimal strings and
\* back, the publish time as the number it is) and the first is selected
SelectDecoded ==
    /\ pc = "validate"
    /\ encodeResult = <<>>
    /\ decodeResult # <<>>
    /\ decodeResult[1].success
    /\ allUpdates' = Arr(decodeResult[1].data[1].decodedUpdates)
    /\ selectedIndices' = Arr(<<0>>)
    /\ pc' = "reencode"
    /\ UNCHANGED <<encodeResult, hermesResponse, decodeResult, validation, encodedUpdate,
                   calldata, numFeeds, gas, now, calls, fetch, request, report>>

NextTime == Decode \/ SelectDecoded \/ Reencode

SpecTime == InitTime /\ [][NextTime]_vars

----------------------------------------------------------------------------
(* Price updates fetched from Hermes (HermesApiClient.fetchLatestPriceUpdates) *)

MaxRetry == 2            \* config.retryAttempts
MaxIds == 2              \* entries of priceIds, when drawn from IdPool
MaxRequests == 9         \* HTTP requests issued during one fetch

\* Price ids as the tests pass them: well-formed in lower and in upper case, without
\* 0x, too short, not hexadecimal, too long, with 0X, with one letter that is no digit
IdPool == {
    SyntheticFeedId(0),
    <<"0", "x">> \o [i \in 1..64 |-> IF i % 2 = 0 THEN "A" ELSE "1"],
    Slice2(SyntheticFeedId(3)),
    <<"0", "x", "1", "2", "3">>,
    <<"0", "x", "i", "n", "v", "a", "l", "i", "d">>,
    SyntheticFeedId(1) \o <<"0">>,
    <<"0", "X">> \o Slice2(SyntheticFeedId(2)),
    SubSeq(SyntheticFeedId(4), 1, 65) \o <<"g">> }

\* The ids of n different feeds
FeedIds(n) == [k \in 1..n |-> SyntheticFeedId(k - 1)]

PriceIdInputs ==
    {Null} \cup {Arr(q) : q \in SeqsUpTo(IdPool, MaxIds)} \cup {Arr(FeedIds(n)) : n \in {6, 11}}

\* What Hermes answers with status 200: a parsed record and the binary update for each
\* of the ids asked for, or data without either
ResponsesFor(ids) == {[parsed |-> Len(ids), binary |-> ids], [parsed |-> 0, binary |-> <<>>]}

\* What makes an attempt fail: status 200 without data, and an error thrown by axios
\* (a status other than 200, a timeout, no connection)
AttemptErrors == {Err("HTTP 200: OK", <<>>), Err("Network Error", <<>>)}

InitFetch ==
    /\ pc = "fetch"
    /\ allUpdates = Null
    /\ selectedIndices = Null
    /\ encodeResult = <<>>
    /\ hermesResponse = EmptyResponse
    /\ decodeResult = <<>>
    /\ validation = <<>>
    /\ encodedUpdate = Null
    /\ calldata = <<>>
    /\ numFeeds = 0
    /\ gas = <<>>
    /\ now = 0
    /\ calls = <<>>
    /\ \E priceIds \in PriceIdInputs, retryAttempts \in 1..MaxRetry :
          fetch = <<[status |-> "idle", priceIds |-> priceIds, retryAttempts |-> retryAttempts,
                     startTime |-> 0, validation |-> <<>>, validIds |-> <<>>,
                     method |-> 0, step |-> 0, allParsed |-> 0, binaries |-> <<>>,
                     errors |-> <<>>, lastError |-> Err("All methods failed", <<>>),
                     failed |-> <<>>, requests |-> 0, result |-> <<>>]>>
    /\ request = <<>>
    /\ report = <<>>

\* The variables a step of the fetch leaves alone
FetchFrame ==
    UNCHANGED <<pc, allUpdates, selectedIndices, encodeResult, hermesResponse, decodeResult,
                validation, encodedUpdate, calldata, numFeeds, gas, calls, report>>

\* The fetch, its request and the clock after a step
Becomes(step) ==
    /\ fetch' = <<step.fetch>>
    /\ request' = step.request
    /\ now' = step.now
    /\ FetchFrame

\* Lines 22-46: the ids are validated and made unique, and the first strategy starts.
\* With priceIds = null, validatePriceIds throws and so does the catch block, which
\* reads priceIds.length: the promise is rejected
Started(f, t) ==
    IF ~IsArr(f.priceIds) THEN Step([f EXCEPT !.status = "rejected", !.startTime = t], <<>>, t)
    ELSE IF validatePriceIds(f.priceIds.items).valid = <<>>
    THEN Failed([f EXCEPT !.startTime = t, !.validation = <<validatePriceIds(f.priceIds.items)>>],
                Err("No valid price IDs found", <<>>), t)
    ELSE Begin([f EXCEPT !.status = "running", !.startTime = t,
                         !.validation = <<validatePriceIds(f.priceIds.items)>>,
                         !.validIds = Unique(validatePriceIds(f.priceIds.items).valid, <<>>)],
               1, t)

FetchLatestPriceUpdates ==
    /\ pc = "fetch"
    /\ fetch # <<>>
    /\ fetch[1].status = "idle"
    /\ Becomes(Started(fetch[1], now))

\* An HTTP request can be issued: makeRequest is waiting and the budget is not used up
CanRequest ==
    /\ pc = "fetch"
    /\ fetch # <<>>
    /\ fetch[1].status = "running"
    /\ request # <<>>
    /\ request[1].status = "pending"
    /\ fetch[1].requests < MaxRequests

\* axios.get resolves with status 200 and data
AxiosResolves ==
    /\ CanRequest
    /\ \E data \in ResponsesFor(request[1].ids) :
          Becomes(Step([fetch[1] EXCEPT !.requests = @ + 1], <<Responds(request[1], data)>>, now))

\* axios.get rejects, or resolves without data
AxiosRejects ==
    /\ CanRequest
    /\ \E error \in AttemptErrors :
          Becomes(Step([fetch[1] EXCEPT !.requests = @ + 1],
                       <<Fails(request[1], error, fetch[1].retryAttempts)>>,
                       now + RETRY_DELAY * (Fails(request[1], error, fetch[1].retryAttempts).waits
                                            - request[1].waits)))

\* makeRequest has returned or thrown
Settled ==
    /\ pc = "fetch"
    /\ fetch # <<>>
    /\ fetch[1].status = "running"
    /\ request # <<>>
    /\ request[1].status # "pending"

\* fetchWithArrayParams, as strategy 1 and as strategy 2 or 3 of a list that fits one batch
ArrayParamsDone(f, r, t) ==
    IF r.status = "returned" THEN Resolved(f, r.response[1], t) ELSE MethodFailed(f, r.error, t)

FetchWithArrayParams ==
    /\ Settled
    /\ fetch[1].method \in 1..3
    /\ ~Batched(fetch[1].method, fetch[1].validIds)
    /\ Becomes(ArrayParamsDone(fetch[1], request[1], now))

\* Lines 132-149: the batch is collected and a delay follows, or the batch is given up
BatchCollected(f, r) ==
    IF r.status = "returned"
    THEN [f EXCEPT !.allParsed = @ + r.response[1].parsed,
                   !.binaries = IF r.response[1].binary # <<>> /\ @ = <<>>
                                THEN <<r.response[1].binary>> ELSE @]
    ELSE f

BatchDone(f, r, t) ==
    Advance(BatchCollected(f, r),
            IF r.status = "returned" /\ f.step + 1 < NumRequests(f.method, f.validIds)
            THEN t + BatchDelay ELSE t,
            Err("No data retrieved from any batch", <<>>))

FetchWithBatchSize ==
    /\ Settled
    /\ Batched(fetch[1].method, fetch[1].validIds)
    /\ Becomes(BatchDone(fetch[1], request[1], now))

\* Lines 187-211: the first parsed record and the binary are collected and a delay
\* follows, or the error is noted with the first ten characters of the id
IndividualCollected(f, r) ==
    IF r.status = "returned"
    THEN [f EXCEPT !.allParsed = IF r.response[1].parsed > 0 THEN @ + 1 ELSE @,
                   !.binaries = IF r.response[1].binary # <<>>
                                THEN Append(@, r.response[1].binary) ELSE @]
    ELSE [f EXCEPT !.errors = Append(@, Err("Feed", <<SubSeq(r.ids[1], 1, 10), r.error.msg>>))]

IndividualDone(f, r, t) ==
    Advance(IndividualCollected(f, r),
            IF r.status = "returned" THEN t + IndividualDelay ELSE t,
            Err("No feeds could be fetched", IndividualCollected(f, r).errors))

FetchIndividuallyAndCombine ==
    /\ Settled
    /\ fetch[1].method = 4
    /\ Becomes(IndividualDone(fetch[1], request[1], now))

NextFetch ==
    \/ FetchLatestPriceUpdates
    \/ AxiosResolves
    \/ AxiosRejects
    \/ FetchWithArrayParams
    \/ FetchWithBatchSize
    \/ FetchIndividuallyAndCombine

SpecFetch == InitFetch /\ [][NextFetch]_vars

----------------------------------------------------------------------------
(* validateUpdate run on the files it finds (scripts/validateUpdate.ts) *)

MaxCut == 2              \* bytes missing at the end of the payload in the file

\* Selections of one, two and five of the six valid records
ReportIndexInputs ==
    {Arr(<<0>>), Arr(<<1, 0>>), Arr(<<0, 1, 2, 0, 1>>), Arr(<<0, 1, 2, 3, 4>>),
     Arr(<<5, 1, 2, 1, 0>>)}

\* encodedData.hex as reencoded_data.json holds it: the payload that was produced, the
\* payload less its last bytes, and the payload with another first byte
HexInFile(hex) ==
    {hex} \cup {SubSeq(hex, 1, Len(hex) - 2 * c) : c \in 1..MaxCut}
    \cup {<<"0", "0">> \o SubSeq(hex, 3, Len(hex))}

\* encodedData.calldata as the file holds it: the calldata that was created, and the
\* payload itself where the calldata should be
CalldataInFile(hex) == {createUpdatePriceFeedsCalldata(hex), <<"0", "x">> \o hex}

InitReport ==
    /\ pc = "roundtrip"
    /\ \E start \in 1..Len(validPool) : allUpdates = Arr(Window(validPool, start, Len(validPool)))
    /\ selectedIndices \in ReportIndexInputs
    /\ encodeResult = <<reencodeSelectedFeeds(allUpdates, selectedIndices)>>
    /\ encodeResult[1].success
    /\ hermesResponse = EmptyResponse
    /\ decodeResult = <<>>
    /\ validation = <<>>
    /\ \E hex \in HexInFile(encodeResult[1].data[1].encodedData) : encodedUpdate = Str(hex)
    /\ \E data \in CalldataInFile(encodeResult[1].data[1].encodedData) : calldata = <<data, data>>
    /\ numFeeds = 0
    /\ gas = <<>>
    /\ now = 0
    /\ calls = <<>>
    /\ fetch = <<>>
    /\ request = <<>>
    /\ report = <<>>

SpecReport == InitReport /\ [][RoundTrip]_vars

----------------------------------------------------------------------------
(* Vocabulary of the properties *)

\* 0x followed by 64 lower-case hex digits: the rendering the decoder gives a feed id
CanonicalFeedId(id) ==
    /\ Len(id) = 2 + 2 * FeedIdBytes
    /\ StartsWith0x(id)
    /\ \A i \in 3..Len(id) : \E d \in 1..16 : HexChars[d] = id[i]

\* 0 <= v < 2^53, v given by its base-256 digits
BelowPow53(v) == ~v.neg /\ (Len(v.mag) < 7 \/ (Len(v.mag) = 7 /\ v.mag[1] < 32))

\* A record whose fields are of their types and within their wire ranges
ValidUpdate(u) ==
    /\ CanonicalFeedId(u.feedId)
    /\ u.priceValue.t = "bigint" /\ InSignedRange(u.priceValue, 8)
    /\ u.confidence.t = "bigint" /\ InUnsignedRange(u.confidence, 8)
    /\ u.exponent.t = "number" /\ InSignedRange(u.exponent, 4)
    /\ u.publishTime.t = "number" /\ BelowPow53(u.publishTime)
    /\ u.emaPrice.t = "bigint" /\ InSignedRange(u.emaPrice, 8)
    /\ u.emaConfidence.t = "bigint" /\ InUnsignedRange(u.emaConfidence, 8)

\* Both arguments of reencodeSelectedFeeds are arrays and the call has returned
Reencoded == encodeResult # <<>> /\ IsArr(allUpdates) /\ IsArr(selectedIndices)

InRange(items, indices) == \A k \in 1..Len(indices) : indices[k] \in 0..(Len(items) - 1)

Distinct(indices) == \A j, k \in 1..Len(indices) : j # k => indices[j] # indices[k]

\* The record R[I[k]] (indices are zero-based)
Selected(k) == allUpdates.items[selectedIndices.items[k] + 1]

EncodeSucceeded == Reencoded /\ encodeResult[1].success

Decoded == decodeResult[1].data[1].decodedUpdates

\* The records agree in the seven fields the wire carries (slot is not carried)
SameFields(a, b) ==
    /\ a.feedId = b.feedId
    /\ a.priceValue = b.priceValue
    /\ a.confidence = b.confidence
    /\ a.exponent = b.exponent
    /\ a.publishTime = b.publishTime
    /\ a.emaPrice = b.emaPrice
    /\ a.emaConfidence = b.emaConfidence

----------------------------------------------------------------------------
(* C1 *)

\* C1: when R holds valid records and I holds distinct in-range indices, re-encoding
\* succeeds, decoding the produced payload succeeds, and the k-th decoded feed id is
\* the feed id of R[I[k]], for every k.
C1_RoundTripFeedIds ==
    (/\ Reencoded
     /\ \A j \in 1..Len(allUpdates.items) : ValidUpdate(allUpdates.items[j])
     /\ InRange(allUpdates.items, selectedIndices.items)
     /\ Distinct(selectedIndices.items))
    => /\ encodeResult[1].success
       /\ decodeResult # <<>> =>
            /\ decodeResult[1].success
            /\ Len(Decoded) = Len(selectedIndices.items)
            /\ \A k \in 1..Len(Decoded) : Decoded[k].feedId = Selected(k).feedId

\* Two valid records selected out of order have been re-encoded and decoded again
C1_Witness ==
    /\ EncodeSucceeded
    /\ decodeResult # <<>>
    /\ Len(allUpdates.items) = 3
    /\ \A j \in 1..3 : ValidUpdate(allUpdates.items[j])
    /\ selectedIndices.items = <<2, 0>>
    /\ decodeResult[1].success

----------------------------------------------------------------------------
(* C2 *)

\* C2: a single valid record with publish_time below 2^53, re-encoded with I = [0] and
\* decoded again, comes back equal in feed id, price, confidence, exponent, publish time,
\* EMA price and EMA confidence.
C2_RoundTripFields ==
    (/\ Reencoded
     /\ decodeResult # <<>>
     /\ Len(allUpdates.items) = 1
     /\ ValidUpdate(allUpdates.items[1])
     /\ selectedIndices.items = <<0>>)
    => /\ decodeResult[1].success
       /\ Len(Decoded) = 1
       /\ SameFields(Decoded[1], allUpdates.items[1])

\* The record with the most negative price and exponent has made the round trip
C2_Witness ==
    /\ Reencoded
    /\ decodeResult # <<>>
    /\ allUpdates.items = <<edgeUpdates[1]>>
    /\ selectedIndices.items = <<0>>
    /\ decodeResult[1].success

----------------------------------------------------------------------------
(* C3 *)

\* The indices of I that resolve to a record of R
Found(items, indices) == {k \in 1..Len(indices) : indices[k] \in 0..(Len(items) - 1)}

\* C3: when some index of I is negative or not below |R| (R empty included), the call
\* fails with "Could not find all requested updates. Found a of b", a the number of
\* indices that resolve and b = |I|, and yields no buffer and no records.
C3_IndexNotFound ==
    (Reencoded /\ ~InRange(allUpdates.items, selectedIndices.items))
    => /\ ~encodeResult[1].success
       /\ encodeResult[1].data = <<>>
       /\ encodeResult[1].error.msg = "Could not find all requested updates"
       /\ encodeResult[1].error.args =
            <<Cardinality(Found(allUpdates.items, selectedIndices.items)),
              Len(selectedIndices.items)>>

\* One index resolves and one is past the end of a non-empty R
C3_Witness ==
    /\ Reencoded
    /\ Len(allUpdates.items) = 2
    /\ selectedIndices.items = <<1, 2>>
    /\ ~encodeResult[1].success

----------------------------------------------------------------------------
(* C4 *)

HasPayload ==
    /\ ~hermesResponse.isNull
    /\ hermesResponse.binary # <<>>
    /\ hermesResponse.binary[1].data # <<>>

\* The first four bytes of the buffer the decoder receives (fewer when it is shorter)
ReceivedMagic ==
    LET hex == hermesResponse.binary[1].data[1] IN
    BufferFromHex(SubSeq(hex, 1, IF Len(hex) < 8 THEN Len(hex) ELSE 8))

\* C4: a buffer whose first four bytes are not 50 4e 41 55 is rejected with the error
\* "Invalid Pyth update magic number", and no records are returned.
C4_MagicRejected ==
    (/\ decodeResult # <<>>
     /\ HasPayload
     /\ Len(ReceivedMagic) = 4
     /\ ReceivedMagic # <<80, 78, 65, 85>>)
    => /\ ~decodeResult[1].success
       /\ decodeResult[1].error.msg = "Invalid Pyth update magic number"
       /\ decodeResult[1].data = <<>>

\* A buffer that is well formed but for the last byte of its magic has been decoded
C4_Witness ==
    /\ decodeResult # <<>>
    /\ HasPayload
    /\ Len(hermesResponse.binary[1].data[1]) > 200
    /\ ReceivedMagic = <<80, 78, 65, 86>>
    /\ ~decodeResult[1].success

----------------------------------------------------------------------------
(* C5 *)

\* hex is a well-formed update of n messages, trailing header size t and message length
\* 85 + e, cut short somewhere after its count field
CutOf(hex, n, t, e) ==
    LET whole == BufferToHex(Wire(Window(validPool, 1, n), t, e)) IN
    /\ Len(hex) >= 2 * (MessagesOffset + t)
    /\ Len(hex) < Len(whole)
    /\ hex = SubSeq(whole, 1, Len(hex))

CutShort ==
    \E n \in 1..MaxWireRecords, t \in {0, MaxTrailing}, e \in {0, MaxExtra} :
        CutOf(hermesResponse.binary[1].data[1], n, t, e)

\* C5: a buffer that ends inside a message, or before all the messages its header
\* declares are complete, is rejected: decoding fails and returns no records at all.
C5_TruncationRejected ==
    (decodeResult # <<>> /\ HasPayload /\ CutShort)
    => /\ ~decodeResult[1].success
       /\ decodeResult[1].data = <<>>

----------------------------------------------------------------------------
(* C6 *)

\* C6: decodePriceUpdates, reencodeSelectedFeeds and validateReencodedData let no
\* exception escape: every call returns its result object, a failure carrying an error.
C6_NoUncaughtException ==
    /\ decodeResult # <<>> =>
         (decodeResult[1].success \/ decodeResult[1].error.msg # "")
    /\ encodeResult # <<>> =>
         (encodeResult[1].success \/ encodeResult[1].error.msg # "")
    /\ validation # <<>> =>
         /\ ~validation[1].threw
         /\ validation[1].result[1].isValid \/ validation[1].result[1].errors # <<>>

----------------------------------------------------------------------------
(* C7 *)

Produced == encodeResult[1].data[1]

\* The message that starts at the k-th 87-byte slot after the 13-byte header
MessageAt(buffer, k) == parseSinglePriceUpdate(buffer, MessagesOffset + 87 * (k - 1))

\* The 32 bytes a feed id string stands for, with or without its 0x prefix
FeedIdOf(id) == BufferFromHex(IF StartsWith0x(id) THEN Slice2(id) ELSE id)

\* The parsed message holds the bytes of the record's feed id and the record's values
Carries(message, u) ==
    /\ message.ok
    /\ FeedIdOf(message.val.data.feedId) = FeedIdOf(u.feedId)
    /\ SameFields([message.val.data EXCEPT !.feedId = u.feedId], u)

\* C7: on success the selection keeps the order of I, duplicates included:
\* selectedUpdates[k] is R[I[k]], feedIds[k] its feed id, selectedCount = |I|,
\* originalCount = |R|, and the k-th message of the produced buffer carries R[I[k]].
C7_SelectionOrder ==
    EncodeSucceeded
    => /\ Len(Produced.selectedUpdates) = Len(selectedIndices.items)
       /\ Len(Produced.feedIds) = Len(selectedIndices.items)
       /\ Produced.selectedCount = Len(selectedIndices.items)
       /\ Produced.originalCount = Len(allUpdates.items)
       /\ Len(Produced.binaryData) = MessagesOffset + 87 * Len(selectedIndices.items)
       /\ \A k \in 1..Len(selectedIndices.items) :
            /\ Produced.selectedUpdates[k] = Selected(k)
            /\ Produced.feedIds[k] = Selected(k).feedId
            /\ Carries(MessageAt(Produced.binaryData, k), Selected(k))

\* A selection in descending order has been encoded
C7_Witness ==
    /\ EncodeSucceeded
    /\ Len(selectedIndices.items) = 2
    /\ selectedIndices.items[1] > selectedIndices.items[2]

----------------------------------------------------------------------------
(* C8 *)

----------------------------------------------------------------------------
(* C9, C10 *)

\* The string is the hex rendering of some buffer
IsHex(str) == Len(str) % 2 = 0 /\ \A i \in 1..Len(str) : HexValue(str[i]) >= 0

\* n < 2^24 as a 32-byte big-endian word
Word(n) ==
    [i \in 1..32 |-> IF i = 32 THEN n % 256
                     ELSE IF i = 31 THEN (n \div 256) % 256
                     ELSE IF i = 30 THEN n \div 65536
                     ELSE 0]

\* The least z >= 0 with n + z a multiple of 32
Padding(n) == CHOOSE z \in 0..31 : (n + z) % 32 = 0 /\ \A y \in 0..(z - 1) : (n + y) % 32 # 0

\* str is 0x and the hex of: selector, word 32, word |b|, b, zero bytes up to a 32-byte boundary
IsCallOf(str, b) ==
    /\ StartsWith0x(str)
    /\ Len(str) = 2 + 2 * (4 + 32 + 32 + Len(b) + Padding(Len(b)))
    /\ Slice2(str)
         = BufferToHex(<<169, 133, 43, 204>> \o Word(32) \o Word(Len(b)) \o b
                       \o Zeros(Padding(Len(b))))

\* C9: the calldata of a buffer b of n bytes is the selector a9852bcc, the 32-byte word
\* 32, the 32-byte word n, b itself, and z zero bytes, z the least with n + z a multiple
\* of 32.
C9_CalldataLayout ==
    (calldata # <<>> /\ IsHex(encodedUpdate.chars))
    => IsCallOf(calldata[2], BufferFromHex(encodedUpdate.chars))

\* Calldata has been built for a buffer of more than 64 bytes that needs no padding
C9_Witness ==
    /\ calldata # <<>>
    /\ IsHex(encodedUpdate.chars)
    /\ Len(encodedUpdate.chars) > 128
    /\ Len(encodedUpdate.chars) % 64 = 0

\* C10: the calldata starts with the selector 0xa9852bcc, and the hex string gives the
\* same calldata with and without a 0x prefix.
C10_SelectorAndPrefix ==
    calldata # <<>>
    => /\ SubSeq(calldata[2], 1, 10) = <<"0", "x", "a", "9", "8", "5", "2", "b", "c", "c">>
       /\ calldata[1] = calldata[2]

\* Calldata has been built from the prefixed and the bare hex of a whole update
C10_Witness ==
    /\ calldata # <<>>
    /\ Len(calldata[1]) > 138
    /\ Len(encodedUpdate.chars) > 26
    /\ decodeResult # <<>>
    /\ decodeResult[1].success

----------------------------------------------------------------------------
(* C11 *)

\* The characters of the calldata after 0x, the selector, the offset word and the length word
PayloadSection(str) == SubSeq(str, 10 + 2 * WordHexChars + 1, Len(str))

\* C11: for every string of hex digits, the calldata less the 10 characters of 0x and
\* the selector has a length that is a multiple of 64, and so has its payload section
\* (what follows the offset word and the length word), which starts with the string given.
C11_PaddedToWord ==
    calldata # <<>>
    => \A k \in 1..2 :
         /\ Len(calldata[k]) >= 10 + 2 * WordHexChars
         /\ (Len(calldata[k]) - 10) % 64 = 0
         /\ Len(PayloadSection(calldata[k])) % 64 = 0
         /\ Len(PayloadSection(calldata[k])) >= Len(encodedUpdate.chars)
         /\ SubSeq(PayloadSection(calldata[k]), 1, Len(encodedUpdate.chars)) = encodedUpdate.chars

\* Calldata has been built for a string of an odd number of hex digits
C11_Witness ==
    /\ calldata # <<>>
    /\ Len(encodedUpdate.chars) % 2 = 1
    /\ Len(encodedUpdate.chars) > 64
    /\ IsHex(encodedUpdate.chars \o <<"0">>)

----------------------------------------------------------------------------
(* C12 *)

\* C12: the gas estimate is linear in the feed count n >= 0: 50000 + 30000 n for the
\* single-bytes entry point and 100000 + 50000 n for the array entry point, so the
\* estimate for no feed is the base and one more feed adds exactly the per-feed cost.
C12_GasLinear ==
    /\ \A i \in 1..Len(gas) :
         /\ gas[i].entry = "bytes" => gas[i].cost = 50000 + (30000 * gas[i].numFeeds)
         /\ gas[i].entry = "array" => gas[i].cost = 100000 + (50000 * gas[i].numFeeds)
         /\ gas[i].numFeeds = 0 =>
              gas[i].cost = IF gas[i].entry = "bytes" THEN 50000 ELSE 100000
    /\ (Len(gas) = 2 /\ gas[1].entry = gas[2].entry)
       => /\ gas[2].numFeeds = gas[1].numFeeds + 1
          /\ gas[2].cost - gas[1].cost = IF gas[1].entry = "bytes" THEN 30000 ELSE 50000

\* The single-bytes entry point has estimated the gas of 5 and then of 6 feeds
C12_Witness ==
    /\ Len(gas) = 2
    /\ gas[1].entry = "bytes"
    /\ gas[2].entry = "bytes"
    /\ gas[1].numFeeds = 5
    /\ gas[2].cost = 230000

----------------------------------------------------------------------------
(* C13 *)

----------------------------------------------------------------------------
(* C14 *)

\* What a call returned, less the time it was made at and the time it took
Outcome(call) ==
    IF call.method = "encodePriceUpdate" THEN call.returned
    ELSE [success |-> call.returned.success, data |-> call.returned.data,
          error |-> call.returned.error]

\* C14: the codec keeps no state: two calls of one method with one argument return the
\* same records and the same bytes, whatever was called before or in between and
\* whenever, and whatever the memory held that the buffers were allocated in.
C14_Deterministic ==
    \A i, j \in 1..Len(calls) :
        (calls[i].method = calls[j].method /\ calls[i].argument = calls[j].argument)
        => Outcome(calls[i]) = Outcome(calls[j])

\* A record was encoded in zeroed memory, something was decoded, and the record was
\* encoded again in memory that held ones
C14_Witness ==
    /\ Len(calls) = 3
    /\ calls[1].method = "encodePriceUpdate"
    /\ calls[2].method = "decodePriceUpdates"
    /\ calls[3].method = "encodePriceUpdate"
    /\ calls[1].argument = calls[3].argument
    /\ calls[1].returned.ok
    /\ calls[2].returned.success
    /\ calls[2].returned.timestamp > 1

----------------------------------------------------------------------------
(* C15 *)

\* The byte at offset of the buffer a hex string stands for
HexByte(hex, offset) == 16 * HexValue(hex[2 * offset + 1]) + HexValue(hex[2 * offset + 2])

\* The header of the payload is complete up to the count (bytes 0 .. 12 + T) and
\* starts with the magic number
HeaderReceived ==
    LET hex == hermesResponse.binary[1].data[1] IN
    /\ HasPayload
    /\ ReceivedMagic = MAGIC
    /\ Len(hex) >= 20
    /\ Len(hex) >= 2 * (MessagesOffset + 256 * HexByte(hex, 8) + HexByte(hex, 9))

\* T, the length of the header extension (bytes 8..9)
TrailingHeaderSize ==
    LET hex == hermesResponse.binary[1].data[1] IN 256 * HexByte(hex, 8) + HexByte(hex, 9)

\* The update type: the byte at offset 10 + T
UpdateType == HexByte(hermesResponse.binary[1].data[1], 10 + TrailingHeaderSize)

\* C15: a buffer whose update-type byte (offset 10 + T) is not 0 is rejected as an
\* unsupported type: decoding fails and returns no records.
C15_UnsupportedTypeRejected ==
    (decodeResult # <<>> /\ HeaderReceived /\ UpdateType # 0)
    => /\ ~decodeResult[1].success
       /\ decodeResult[1].data = <<>>

----------------------------------------------------------------------------
(* C16 *)

\* The two-byte big-endian number at offset of the buffer a hex string stands for
HexUInt16(hex, offset) == 256 * HexByte(hex, offset) + HexByte(hex, offset + 1)

RECURSIVE Overruns(_, _, _)
\* Walking `remaining` messages from offset by their declared lengths, one is met
\* whose length field L is complete and larger than the bytes that remain after it
Overruns(hex, offset, remaining) ==
    IF remaining = 0 \/ offset + 2 > Len(hex) \div 2 THEN FALSE
    ELSE \/ offset + 2 + HexUInt16(hex, offset) > Len(hex) \div 2
         \/ Overruns(hex, offset + 2 + HexUInt16(hex, offset), remaining - 1)

\* N, the message count of the header (bytes 11 + T .. 12 + T)
DeclaredCount == HexUInt16(hermesResponse.binary[1].data[1], 11 + TrailingHeaderSize)

\* C16: when the length L a message declares exceeds the bytes that remain in the
\* buffer, decoding fails (Truncated) and returns no records, even when the 85 bytes
\* of the fixed fields are all there.
C16_DeclaredLengthChecked ==
    (/\ decodeResult # <<>>
     /\ HeaderReceived
     /\ Overruns(hermesResponse.binary[1].data[1], MessagesOffset + TrailingHeaderSize,
                 DeclaredCount))
    => /\ ~decodeResult[1].success
       /\ decodeResult[1].data = <<>>

----------------------------------------------------------------------------
(* C17 *)

\* The response with the payload replaced by the hex of buffer
WithPayload(response, buffer) ==
    [response EXCEPT !.binary = <<[data |-> <<BufferToHex(buffer)>>]>>]

\* The payload received is the well-formed buffer of the first n records whose
\* messages carry extra bytes after ema_confidence, behind T header-extension bytes
ReceivedWire(n, t, e) ==
    /\ decodeResult # <<>>
    /\ HasPayload
    /\ hermesResponse.binary[1].data[1] = BufferToHex(Wire(Window(validPool, 1, n), t, e))

\* C17: the cursor advances by the declared length L of each message, so a buffer
\* whose messages carry bytes after ema_confidence (L > 85) decodes to the same
\* records as the buffer without those bytes.
C17_ExtraBytesSkipped ==
    \A n \in 0..MaxWireRecords, t \in {0, MaxTrailing}, e \in 1..MaxExtra :
        ReceivedWire(n, t, e)
        => LET plain == decodePriceUpdates(
                            WithPayload(hermesResponse, Wire(Window(validPool, 1, n), t, 0)))
           IN /\ decodeResult[1].success = plain.success
              /\ plain.success => Decoded = plain.data[1].decodedUpdates

----------------------------------------------------------------------------
(* C18 *)

RECURSIVE UnknownMessageType(_, _, _)
\* Walking `remaining` messages from offset by their declared lengths, one is met
\* whose message-type byte (after the length field) is there and is not 0
UnknownMessageType(hex, offset, remaining) ==
    IF remaining = 0 \/ offset + 3 > Len(hex) \div 2 THEN FALSE
    ELSE \/ HexByte(hex, offset + 2) # 0
         \/ UnknownMessageType(hex, offset + 2 + HexUInt16(hex, offset), remaining - 1)

\* C18: when one of the N messages has a message-type byte other than 0, decoding
\* fails and returns no records: the message is neither skipped nor read as a price
\* update.
C18_UnknownMessageTypeRejected ==
    (/\ decodeResult # <<>>
     /\ HeaderReceived
     /\ UnknownMessageType(hermesResponse.binary[1].data[1],
                           MessagesOffset + TrailingHeaderSize, DeclaredCount))
    => /\ ~decodeResult[1].success
       /\ decodeResult[1].data = <<>>

----------------------------------------------------------------------------
(* C19 *)

\* The records decoded from buffer, the rest of the response as received
RecordsOf(buffer) == decodePriceUpdates(WithPayload(hermesResponse, buffer)).data[1].decodedUpdates

\* C19: decoding keeps the order and the count of the wire. For a well-formed buffer
\* with T header-extension bytes and count N (bytes 11+T..12+T, first message at
\* 13+T) exactly N records are returned, the i-th built from the i-th message, and
\* what the header-extension bytes hold makes no difference.
C19_WireOrderAndCount ==
    \A n \in 0..MaxWireRecords, t \in {0, MaxTrailing}, e \in 0..MaxExtra :
        (ReceivedWire(n, t, e) /\ hermesResponse.parsed # <<>>)
        => /\ decodeResult[1].success
           /\ Len(Decoded) = n
           /\ \A i \in 1..n : SameFields(Decoded[i], validPool[i])
           /\ Decoded = RecordsOf(Wire(Window(validPool, 1, n), 0, e))
           /\ \A held \in {0, 255} :
                  t > 0 => Decoded = RecordsOf([Wire(Window(validPool, 1, n), t, e)
                                                  EXCEPT ![10 + t] = held])

----------------------------------------------------------------------------
(* C20 *)

\* The 87 bytes of the k-th message of the produced buffer
EmittedMessage(k) ==
    SubSeq(Produced.binaryData, MessagesOffset + 87 * (k - 1) + 1, MessagesOffset + 87 * k)

\* The bytes hold the length field 85, type 0, the feed id bytes of u, and the fields
\* of u at their offsets, the publish time twice
LaidOut(message, u) ==
    /\ Len(message) = 87
    /\ SubSeq(message, 1, 2) = <<0, 85>>
    /\ message[3] = 0
    /\ SubSeq(message, 4, 35) = FeedIdOf(u.feedId)
    /\ readBigInt64BE(message, 35) = Ok(u.priceValue)
    /\ readBigUInt64BE(message, 43) = Ok(u.confidence)
    /\ readInt32BE(message, 51) = Ok(u.exponent)
    /\ readBigUInt64BE(message, 55) = Ok(BigIntOf(u.publishTime))
    /\ readBigUInt64BE(message, 63) = Ok(BigIntOf(u.publishTime))
    /\ SubSeq(message, 64, 71) = SubSeq(message, 56, 63)
    /\ readBigInt64BE(message, 71) = Ok(u.emaPrice)
    /\ readBigUInt64BE(message, 79) = Ok(u.emaConfidence)

\* C20: every message the encoder emits is 87 bytes: the length field 85, message
\* type 0, the 32 feed-id bytes, then price, confidence, exponent, publish_time,
\* prev_publish_time, ema_price and ema_confidence; prev_publish_time equals
\* publish_time; the whole buffer is 13 + 87 * |I| bytes.
C20_MessageLayout ==
    EncodeSucceeded
    => /\ Len(Produced.binaryData) = MessagesOffset + 87 * Len(selectedIndices.items)
       /\ \A k \in 1..Len(selectedIndices.items) : LaidOut(EmittedMessage(k), Selected(k))

\* Two messages have been emitted, the second for a record whose confidence is not
\* its publish time
C20_Witness ==
    /\ EncodeSucceeded
    /\ Len(selectedIndices.items) = 2
    /\ Selected(2).confidence # BigIntOf(Selected(2).publishTime)
    /\ Len(EmittedMessage(2)) = 87

----------------------------------------------------------------------------
(* C21 *)

\* validateReencodedData has returned isValid = true for the payload and the selection
Validated ==
    /\ validation # <<>>
    /\ ~validation[1].threw
    /\ validation[1].result[1].isValid

\* C21: the validator is sound with respect to the decoder: when validateReencodedData
\* returns isValid = true for a buffer and a selection, decoding the same buffer
\* succeeds and every feed id R[i].feedId, i in selectedIndices, is the feed id of a
\* decoded record.
C21_ValidatorSound ==
    (Validated /\ decodeResult # <<>> /\ HasPayload /\ hermesResponse.parsed # <<>>)
    => /\ decodeResult[1].success
       /\ \A k \in 1..Len(selectedIndices.items) :
            \E j \in 1..Len(Decoded) : Decoded[j].feedId = Selected(k).feedId

----------------------------------------------------------------------------
(* C22 *)

\* validateReencodedData has returned (no exception left it)
Returned == validation # <<>> /\ ~validation[1].threw

\* The payload received has the length of n messages of 87 bytes after the header
ReceivedLength(n) ==
    HasPayload /\ Len(hermesResponse.binary[1].data[1]) = 2 * (MessagesOffset + 87 * n)

\* The payload received is the hex of buffer
Received(buffer) == HasPayload /\ hermesResponse.binary[1].data[1] = BufferToHex(buffer)

\* The valid buffer of the first n records and the selection pass the validator
PlainIsValid(n) ==
    LET plain == validateReencodedData(allUpdates,
                                       Str(BufferToHex(Wire(Window(validPool, 1, n), 0, 0))),
                                       selectedIndices)
    IN ~plain.threw /\ plain.result[1].isValid

\* C22: warnings never fail the validation. isValid is true exactly when the errors
\* list is empty; a buffer that differs from a valid one only in its version (not
\* 1.0), in the value of its trailing header size (not 0), or in holding a feed id that
\* was not expected gets warnings only, and isValid = true.
C22_WarningsDoNotFail ==
    Returned
    => LET result == validation[1].result[1] IN
       /\ result.isValid <=> (result.errors = <<>>)
       /\ \A n \in 0..MaxWireRecords, k \in {6, 10} :
            (/\ ReceivedLength(n)
             /\ Received([Wire(Window(validPool, 1, n), 0, 0) EXCEPT ![k] = @ + 1])
             /\ PlainIsValid(n))
            => /\ result.isValid
               /\ result.errors = <<>>
               /\ \E w \in 1..Len(result.warnings) :
                     result.warnings[w].msg = (IF k = 6 THEN "Unexpected version"
                                              ELSE "Non-zero trailing header size")
       /\ (/\ selectedIndices = Arr(<<0, 0>>)
           /\ ReceivedLength(2)
           /\ Received(Wire(Window(validPool, 1, 2), 0, 0)))
            => /\ result.isValid
               /\ result.errors = <<>>
               /\ result.warnings = <<UnexpectedFeedId(validPool[2].feedId)>>

\* A buffer of version 2.0 has been validated against the selection it holds
C22_Witness ==
    /\ Returned
    /\ Received([Wire(Window(validPool, 1, 2), 0, 0) EXCEPT ![6] = @ + 1])
    /\ selectedIndices = Arr(<<0, 1>>)
    /\ validation[1].result[1].warnings # <<>>

----------------------------------------------------------------------------
(* C23 *)

\* The payload holds the byte at offset
HoldsByte(offset) == Len(hermesResponse.binary[1].data[1]) >= 2 * (offset + 1)

\* The header of the payload, read at the fixed offsets of the 13-byte header, does
\* not match: the magic, the update type (offset 10) or the count (offsets 11-12)
HeaderMismatch ==
    LET hex == hermesResponse.binary[1].data[1] IN
    \/ ReceivedMagic # MAGIC
    \/ HoldsByte(10) /\ HexByte(hex, 10) # 0
    \/ HoldsByte(12) /\ HexUInt16(hex, 11) # Len(selectedIndices.items)

\* C23: the validator rejects header mismatches. Whenever the magic of the buffer is
\* not 50 4e 41 55, or its update type byte is not 0, or the count it declares is not
\* the length of selectedIndices, validateReencodedData returns isValid = false with
\* at least one error.
C23_HeaderMismatchRejected ==
    (Returned /\ HasPayload /\ HeaderMismatch)
    => /\ ~validation[1].result[1].isValid
       /\ validation[1].result[1].errors # <<>>

\* A complete buffer of two records, magic and update type as expected, has been
\* validated against a selection of one
C23_Witness ==
    /\ Returned
    /\ ReceivedLength(2)
    /\ ReceivedMagic = MAGIC
    /\ HexByte(hermesResponse.binary[1].data[1], 10) = 0
    /\ HexUInt16(hermesResponse.binary[1].data[1], 11) = 2
    /\ selectedIndices = Arr(<<0>>)
    /\ ~validation[1].result[1].isValid

----------------------------------------------------------------------------
(* C24 *)

\* C24: too-short data is reported by name. For a payload shorter than the 13-byte
\* header (magic through message count) validateReencodedData returns isValid = false
\* and its errors hold the message 'Re-encoded data is too short'.
C24_TooShortByName ==
    (Returned /\ HasPayload /\ ~HoldsByte(MessagesOffset - 1))
    => /\ ~validation[1].result[1].isValid
       /\ \E k \in 1..Len(validation[1].result[1].errors) :
            validation[1].result[1].errors[k].msg = "Re-encoded data is too short"

----------------------------------------------------------------------------
(* C25 *)

\* The record has a feed id of 0x and exactly 64 hex digits, a bigint price and
\* confidence, and a numeric exponent and publish time
WellShaped(u) ==
    /\ Len(u.feedId) = 2 + 2 * FeedIdBytes
    /\ StartsWith0x(u.feedId)
    /\ \A i \in 3..Len(u.feedId) : HexValue(u.feedId[i]) >= 0
    /\ u.priceValue.t = "bigint"
    /\ u.confidence.t = "bigint"
    /\ u.exponent.t = "number"
    /\ u.publishTime.t = "number"

\* C25: validateDecodedData returns isValid = true exactly when its input is an array
\* whose records all have a feed id of 0x and exactly 64 hex digits, a bigint price and
\* confidence and a numeric exponent and publish time; a feed id with the prefix but
\* not 64 hex digits is reported as an error; the empty array is valid, a non-array is
\* not.
C25_RecordShape ==
    (pc = "done" /\ validation # <<>>)
    => /\ validation[1].isValid
            <=> (IsArr(allUpdates)
                 /\ \A k \in 1..Len(allUpdates.items) : WellShaped(allUpdates.items[k]))
       /\ validation[1].isValid <=> (validation[1].errors = <<>>)

----------------------------------------------------------------------------
(* C26 *)

\* The eight bytes of the publish_time field of the first message of the payload
CarriedTime ==
    LET hex == hermesResponse.binary[1].data[1] IN
    [i \in 1..8 |-> HexByte(hex, MessagesOffset + 54 + i)]

\* C26: 64-bit timestamps keep full precision. For every publish_time in the unsigned
\* 64-bit range that a message carries, also at and above 2^53, decoding returns
\* exactly that integer, and encoding the decoded record again writes exactly the same
\* eight bytes.
C26_TimestampPrecision ==
    /\ (decodeResult # <<>> /\ HasPayload)
       => /\ decodeResult[1].success
          /\ Decoded[1].publishTime = Num(FALSE, StripZeros(CarriedTime))
    /\ (encodeResult # <<>> /\ HasPayload)
       => /\ encodeResult[1].success
          /\ Bytes(Produced.binaryData, MessagesOffset + 55, 8) = CarriedTime

----------------------------------------------------------------------------
(* C27 *)

HexDigits ==
    {"0", "1", "2", "3", "4", "5", "6", "7", "8", "9",
     "a", "b", "c", "d", "e", "f", "A", "B", "C", "D", "E", "F"}

\* The id is 0x followed by exactly 64 hexadecimal characters
IsPriceId(id) ==
    /\ Len(id) = 66
    /\ id[1] = "0"
    /\ id[2] = "x"
    /\ \A i \in 3..66 : id[i] \in HexDigits

IsNoPriceId(id) == ~IsPriceId(id)

\* The fetch has validated the ids it was given
IdsValidated == fetch # <<>> /\ fetch[1].validation # <<>>

\* C27: validatePriceIds partitions its input. Every id is put in exactly one of valid
\* and invalid, in the order of the input and with its duplicates; an id is valid
\* exactly when it is 0x followed by exactly 64 hexadecimal characters; the two lists
\* together are as long as the input.
C27_IdsPartitioned ==
    IdsValidated
    => /\ fetch[1].validation[1].valid = SelectSeq(fetch[1].priceIds.items, IsPriceId)
       /\ fetch[1].validation[1].invalid = SelectSeq(fetch[1].priceIds.items, IsNoPriceId)
       /\ Len(fetch[1].validation[1].valid) + Len(fetch[1].validation[1].invalid)
            = Len(fetch[1].priceIds.items)

\* A list of an id that is too short and of a valid id in upper case
C27_Witness ==
    /\ IdsValidated
    /\ Len(fetch[1].priceIds.items) = 2
    /\ fetch[1].validation[1].invalid = <<<<"0", "x", "1", "2", "3">>>>
    /\ fetch[1].validation[1].valid = <<fetch[1].priceIds.items[2]>>
    /\ \E i \in 3..66 : fetch[1].priceIds.items[2][i] = "A"

----------------------------------------------------------------------------
(* C28 *)

\* fetchLatestPriceUpdates was called and has not returned yet
Fetching == fetch # <<>> /\ fetch[1].status = "running"

\* The promise of fetchLatestPriceUpdates was fulfilled with a ProcessingResult
Fulfilled == fetch # <<>> /\ fetch[1].status = "resolved"

\* The strategies that have failed so far are 1, 2, ... in this order, and the one that
\* runs, or ran last, is the next one
InOrder ==
    /\ \A k \in 1..Len(fetch[1].failed) : fetch[1].failed[k] = k
    /\ fetch[1].method \in {Len(fetch[1].failed), Len(fetch[1].failed) + 1}
    /\ fetch[1].method <= 4

\* The order of the strategies and the result returned, for a call that does not reject
FallbackOrder ==
    /\ Fetching => InOrder /\ fetch[1].method = Len(fetch[1].failed) + 1
    /\ Fulfilled =>
          /\ request = <<>>
          /\ fetch[1].validIds # <<>> => InOrder
          /\ fetch[1].result[1].success
                => /\ fetch[1].validIds # <<>>
                   /\ fetch[1].method = Len(fetch[1].failed) + 1
          /\ ~fetch[1].result[1].success
                <=> \/ fetch[1].validation[1].valid = <<>>
                    \/ fetch[1].failed = <<1, 2, 3, 4>>
          /\ fetch[1].failed = <<1, 2, 3, 4>>
                => /\ fetch[1].result[1].error = fetch[1].lastError
                   /\ fetch[1].result[1].error.msg = "No feeds could be fetched"

\* C28: fetchLatestPriceUpdates tries its four strategies in the order array-params,
\* batch-of-10, batch-of-5, individual; a strategy is started only after the one before
\* it has failed; the result of the first strategy that succeeds is returned with
\* success = true and no later strategy is run; the call never rejects, and it returns
\* success = false exactly when no valid id was supplied or all four strategies failed,
\* then with the error message of the last strategy.
C28_FallbackOrder ==
    /\ fetch # <<>> => fetch[1].status # "rejected"
    /\ FallbackOrder

\* All four strategies have failed for a list of valid ids
C28_AllFailed ==
    /\ Fulfilled
    /\ fetch[1].failed = <<1, 2, 3, 4>>
    /\ ~fetch[1].result[1].success

\* The third strategy succeeded by batches after the first two had failed
C28_ThirdSucceeded ==
    /\ Fulfilled
    /\ fetch[1].failed = <<1, 2>>
    /\ fetch[1].result[1].success
    /\ Len(fetch[1].validIds) > 5

----------------------------------------------------------------------------
(* C29 *)

\* The attempts before the last one have all failed
EarlierFailed(attempts) == \A a \in 1..(Len(attempts) - 1) : ~attempts[a].ok

----------------------------------------------------------------------------
(* C30 *)

\* The round-trip decoding test found every selected feed id in the decoded result
IdsPreserved ==
    /\ decodeResult # <<>>
    /\ decodeResult[1].success
    /\ \A k \in 1..Len(Produced.feedIds) :
          \E j \in 1..Len(Decoded) : Decoded[j].feedId = Produced.feedIds[k]

\* What validateUpdate checked came out well: the round trip, the number of selected
\* feeds and the selector of the calldata
ChecksPassed ==
    /\ IdsPreserved
    /\ report[1].dataIntegrity.selectedFeedCount = expectedSelectedCount
    /\ StartsWith(calldata[2], functionSelector)

\* C30: the validation report is faithful to the checks performed. In the report that
\* validateUpdate writes, roundTripTest.successful, summary.readyForOnChainUse and
\* allValidationsPassed are true only if decoding the re-encoded payload succeeded, every
\* selected feed id was found in the decoded result, the feed counts matched and the
\* calldata carried the expected selector.
C30_ReportFaithful ==
    report # <<>>
    => /\ report[1].roundTripTest.successful => ChecksPassed
       /\ report[1].summary.readyForOnChainUse => ChecksPassed
       /\ report[1].allValidationsPassed => ChecksPassed

\* A report that calls the round trip successful and the data ready for on-chain use
\* although the payload could not be decoded
ReportedWithoutDecoding ==
    /\ report # <<>>
    /\ report[1].roundTripTest.successful
    /\ report[1].summary.readyForOnChainUse
    /\ report[1].allValidationsPassed
    /\ report[1].dataIntegrity.selectedFeedCount = expectedSelectedCount
    /\ ~decodeResult[1].success

\* A report that calls the data ready although the calldata has no selector
ReportedWithoutSelector ==
    /\ report # <<>>
    /\ report[1].summary.readyForOnChainUse
    /\ IdsPreserved
    /\ ~report[1].calldataValidation.hasFunctionSelector

\* A report whose flags are true after checks that all passed
ReportedAfterChecks ==
    /\ report # <<>>
    /\ report[1].summary.readyForOnChainUse
    /\ ChecksPassed

\* A report that says the data is not ready: a selected feed has a price of zero or less
ReportedNotReady ==
    /\ report # <<>>
    /\ ~report[1].summary.readyForOnChainUse
    /\ report[1].roundTripTest.successful

====
